---- MODULE Spec2Model ----
(***************************************************************************)
(* effect-idb: the transaction registry / object-store proxies             *)
(* (idbtransaction.ts, idbobjectstore.ts) and the connection manager with  *)
(* its migration engine (idbdatabase.ts), over a model of the native       *)
(* IndexedDB engine's transaction and open-request life cycles.            *)
(***************************************************************************)
EXTENDS Integers, Sequences, FiniteSets, TLC

\* ------------------------------------------------------------------------
\* Bounds
\* ------------------------------------------------------------------------
MaxProvides == 2
MaxRegistries == 2
MaxTransactions == 2
MaxCalls == 2
MaxLateCalls == 3
MaxLayers == 2
MaxVersion == 3
MaxOpens == 2
MaxStepOps == 2
MaxRuns == 2
MaxScopes == 3
MaxEvents == 2

\* ------------------------------------------------------------------------
\* Domains
\* ------------------------------------------------------------------------
Provides == 1..MaxProvides
Registries == 1..MaxRegistries

\* names a caller may pass as a store name; "ghost" is in no database
StoreNames == {"contacts", "notes", "ghost"}

\* db.objectStoreNames of the connected database
objectStoreNames == {"contacts", "notes"}

Modes == {"readonly", "readwrite"}

ServiceOperations == {"add", "put", "get", "getAll", "delete", "clear"}

WriteOperations == {"add", "put", "delete", "clear"}

\* ------------------------------------------------------------------------
\* Sequence helpers (a JS Set iterates in insertion order)
\* ------------------------------------------------------------------------
Range(s) == {s[i] : i \in 1..Len(s)}

\* Set.prototype.add on the insertion-ordered set held in storeNamesRef
SetAddUnchecked(stores, storeName) == Append(stores, storeName)

SetAdd(stores, storeName) ==
    IF storeName \in Range(stores) THEN stores ELSE Append(stores, storeName)

RECURSIVE FirstOccurrences(_)
FirstOccurrences(log) ==
    IF log = <<>> THEN <<>>
    ELSE LET front == FirstOccurrences(SubSeq(log, 1, Len(log) - 1))
             last == log[Len(log)]
         IN  IF last \in Range(front) THEN front ELSE Append(front, last)

VARIABLES
    provideCount,        \* number of Effect.provide(layer) calls made so far
    bodyState,           \* per provide call: none/running/succeeded/failed
    memoMap,             \* the layer memo map of the latest build
    registryCount,       \* number of registry instances built so far
    registry,            \* per registry instance: the refs of registryServiceEffect
    transactions,        \* native transactions the engine has created, in order
    transactionHistory,  \* dbService.__transactionHistoryRef
    persisted,           \* writes the engine has committed
    callCount,           \* service calls made so far, over all scopes
    builtLayers,         \* every store layer built: provide call, store, mode, fresh, registry
    addStoreLog,         \* per registry: every addStore argument, in call order
    opTransactions,      \* per registry: transactions its proxy operations resolved against
    confirmedWrites,     \* per registry: writes whose request reported success
    openCount,           \* number of dbFactory.open(config) calls made so far
    config,              \* the IDBDatabaseConfig of the latest open
    database,            \* what the engine has persisted: version, stores, indexes
    request,             \* the IDBOpenDBRequest of the latest open
    upgradeTxn,          \* its "versionchange" transaction and the structure it works on
    upgradeFiber,        \* the fiber Effect.runFork(Effect.all(orderedMigrations)) started
    orderedMigrations,   \* the steps the upgradeneeded handler collected
    migrationLog,        \* the steps the fiber has started, in order
    stepOps,             \* calls and waits the explicit steps have made, over all opens
    stepStart,           \* the structure the running step found when it started
    resumed,             \* first argument given to the resume of the open's Effect.async
    failedUpgrade,       \* the latest upgrade, if it failed: the structure before it and at its failing step
    schemaDb,            \* a database that is only changed by autoGenerateObjectStores
    schemaRun,           \* the latest run on it: its number, the declared stores, the outcome
    schemaStores,        \* per store of that database: its parameters and its records
    proxyCall,           \* the latest request of a proxy: its inputs and how its effect completed
    requestLog,          \* the events delivered to that request and the values given to resume
    dbScopes,            \* per scope the database layer is built in: build, body, exit
    connections,         \* per scope: the native connection its open obtained
    engine,              \* the database as stored: its version, a deletion waiting
    storeFibers          \* per fiber of a scope's body: its position in useObjectStore

txnVars == <<provideCount, bodyState, memoMap, registryCount, registry, transactions,
             transactionHistory, persisted, callCount, builtLayers, addStoreLog,
             opTransactions, confirmedWrites>>

openVars == <<openCount, config, database, request, upgradeTxn, upgradeFiber,
              orderedMigrations, migrationLog, stepOps, stepStart, resumed, failedUpgrade>>

schemaVars == <<schemaDb, schemaRun, schemaStores>>

proxyVars == <<proxyCall, requestLog>>

connVars == <<dbScopes, connections, engine>>

fiberVars == <<storeFibers>>

vars == <<txnVars, openVars, schemaVars, proxyVars, connVars, fiberVars>>

\* ------------------------------------------------------------------------
\* Transaction registry (registryServiceEffect)
\* ------------------------------------------------------------------------
NoRegistry ==
    [built |-> FALSE, provide |-> 0, fresh |-> FALSE, storeNamesRef |-> <<>>,
     permissionRef |-> "readonly", liveTransaction |-> 0, proxies |-> {},
     operated |-> FALSE, usedUse |-> FALSE, lastError |-> "none", lastThrown |-> "none",
     lastCall |-> [call |-> 0, store |-> "none", missing |-> "none", tag |-> "none",
                   storeNames |-> <<>>, mode |-> "none"]]

\* Ref.make(new Set()), Ref.make("readonly"), Ref.make(null)
registryServiceEffect(p, fresh) ==
    [NoRegistry EXCEPT !.built = TRUE, !.provide = p, !.fresh = fresh]

\* an addStore that pushes onto an array instead of adding to a Set
addStoreArray(reg, storeName) ==
    [reg EXCEPT !.storeNamesRef = Append(@, storeName)]

\* addStore: stores.add(storeName) on the set held by storeNamesRef
addStore(reg, storeName) ==
    [reg EXCEPT !.storeNamesRef = SetAdd(reg.storeNamesRef, storeName)]

\* storeNames: Array.from(stores)
storeNames(reg) == reg.storeNamesRef

setPermissions(reg, permissions) == [reg EXCEPT !.permissionRef = permissions]

\* ------------------------------------------------------------------------
\* Native engine: IDBDatabase.transaction / IDBTransaction.objectStore
\* ------------------------------------------------------------------------
TransactionOpenExceptionType == {"InvalidStateError", "NotFoundError", "InvalidAccessError"}

TransactionObjectStoreExceptionType == {"NotFoundError", "InvalidStateError"}

\* db.transaction(storeNames, mode): "ok" or the name of the exception thrown
dbTransaction(names) ==
    IF \E i \in 1..Len(names) : names[i] \notin objectStoreNames THEN "NotFoundError"
    ELSE IF names = <<>> THEN "InvalidAccessError"
    ELSE "ok"

\* a transaction that hands out every store, whatever its scope
transactionObjectStoreUnscoped(txn, storeName) ==
    IF txn.state # "active" THEN "InvalidStateError" ELSE "ok"

\* transaction.objectStore(storeName): "ok" or the name of the exception thrown
transactionObjectStore(txn, storeName) ==
    IF txn.state # "active" THEN "InvalidStateError"
    ELSE IF storeName \notin Range(txn.storeNames) THEN "NotFoundError"
    ELSE "ok"

\* a catch that knows the DOMException names only
catchTransactionOpenDOMOnly(thrown) ==
    IF thrown \in TransactionOpenExceptionType THEN "IDBTransactionError" ELSE "defect"

\* the catch of getRawTransactionFromRawDatabaseEffect: isKnownDOMException(error,
\* TransactionOpenExceptionType) || error instanceof TypeError, else `throw error`
catchTransactionOpen(thrown) ==
    IF thrown \in TransactionOpenExceptionType \cup {"TypeError"} THEN "IDBTransactionError"
    ELSE "defect"

\* getRawTransactionFromRawDatabaseEffect: typed error for the known kinds, defect otherwise
getRawTransactionFromRawDatabaseEffect(names) ==
    LET thrown == dbTransaction(names)
    IN  IF thrown = "ok" THEN "ok" ELSE catchTransactionOpen(thrown)

\* a catch that rethrows whatever transaction.objectStore throws
getRawObjectStoreFromRawTransactionEffectRethrowing(txn, storeName) ==
    IF transactionObjectStore(txn, storeName) = "ok" THEN "ok" ELSE "defect"

\* getRawObjectStoreFromRawTransactionEffect
getRawObjectStoreFromRawTransactionEffect(txn, storeName) ==
    LET thrown == transactionObjectStore(txn, storeName)
    IN  IF thrown = "ok" THEN "ok"
        ELSE IF thrown \in TransactionObjectStoreExceptionType THEN "IDBTransactionError"
        ELSE "defect"

\* the IDBTransactionError built without its storeNames and mode members
TransactionErrorBare(tag, names, mode) ==
    [tag |-> tag, storeNames |-> <<>>, mode |-> "none"]

\* what the two effects above fail with: new IDBTransactionError({ message,
\* storeNames, mode, cause }), or the rethrown error, which has neither member
TransactionError(tag, names, mode) ==
    IF tag = "IDBTransactionError"
    THEN [tag |-> tag, storeNames |-> names, mode |-> mode]
    ELSE [tag |-> tag, storeNames |-> <<>>, mode |-> "none"]

\* the native transaction db.transaction(storeNames, mode) returns
NativeTransactionDefaultMode(r, names, mode, logLen) ==
    [registry |-> r, storeNames |-> names, mode |-> "readonly", state |-> "active",
     writes |-> {}, addCallsAtOpen |-> logLen]

NativeTransaction(r, names, mode, logLen) ==
    [registry |-> r, storeNames |-> names, mode |-> mode, state |-> "active",
     writes |-> {}, addCallsAtOpen |-> logLen]

\* history.push({ mode, storeNames })
HistoryEntry(names, mode) == [mode |-> mode, storeNames |-> names]

\* ------------------------------------------------------------------------
\* Init
\* ------------------------------------------------------------------------
EmptyMemoMap == [m \in Modes |-> 0]

TxnInit ==
    /\ provideCount = 0
    /\ bodyState = [p \in Provides |-> "none"]
    /\ memoMap = EmptyMemoMap
    /\ registryCount = 0
    /\ registry = [r \in Registries |-> NoRegistry]
    /\ transactions = <<>>
    /\ transactionHistory = <<>>
    /\ persisted = {}
    /\ callCount = 0
    /\ builtLayers = <<>>
    /\ addStoreLog = [r \in Registries |-> <<>>]
    /\ opTransactions = [r \in Registries |-> {}]
    /\ confirmedWrites = [r \in Registries |-> {}]

\* ------------------------------------------------------------------------
\* Layer building: Effect.provide(effect, layer)
\* ------------------------------------------------------------------------
\* a build that starts from the memo map the previous build left behind
LeakedMemoMap == memoMap

\* every Effect.provide builds its layer with a memo map of its own
NewMemoMap == EmptyMemoMap

\* makeObjectStoreProxyService(storeName): registry.addStore(storeName), then the proxy
makeObjectStoreProxyService(reg, storeName) ==
    [addStore(reg, storeName) EXCEPT !.proxies = @ \cup {storeName}]

\* the store layers one provide call may be given (Layer.mergeAll of store layers)
StoreLayers == [storeName : StoreNames, mode : Modes, fresh : BOOLEAN]

\* Layer.mergeAll of up to MaxLayers store layers taken from the same getter
\* (WithReadWrite, WithReadOnly, WithFreshReadWrite or WithFreshReadOnly)
ProvidedLayers ==
    {layers \in UNION {[1..n -> StoreLayers] : n \in 1..MaxLayers} :
        \A i \in 1..Len(layers) :
            layers[i].mode = layers[1].mode /\ layers[i].fresh = layers[1].fresh}

\* One store layer is built.  WithReadWrite / WithReadOnly share the
\* IDBTransactionService layer memoized in the build's memo map (one registry per mode),
\* the Fresh variants build a registry of their own.  makeTransactionService(permissions)
\* sets the permission when the registry is built; the store's service effect then
\* calls txn.objectStore(name).
BuildStoreLayer(b, p, layer) ==
    LET memoized == b.memoMap[layer.mode]
        reuse == ~layer.fresh /\ memoized # 0
        r == IF reuse THEN memoized ELSE b.registryCount + 1
        base == IF reuse THEN [b.registry[r] EXCEPT !.provide = p]
                ELSE setPermissions(registryServiceEffect(p, layer.fresh), layer.mode)
    IN  IF r > MaxRegistries THEN [b EXCEPT !.ok = FALSE]
        ELSE [b EXCEPT
                !.registry = [@ EXCEPT ![r] = makeObjectStoreProxyService(base, layer.storeName)],
                !.addStoreLog = [@ EXCEPT ![r] = Append(@, layer.storeName)],
                !.registryCount = IF reuse THEN @ ELSE r,
                !.memoMap = IF layer.fresh THEN @ ELSE [@ EXCEPT ![layer.mode] = r],
                !.builtLayers = Append(@, [provide |-> p, storeName |-> layer.storeName,
                                           mode |-> layer.mode, fresh |-> layer.fresh,
                                           registry |-> r])]

RECURSIVE BuildLayers(_, _, _)
BuildLayers(b, p, layers) ==
    IF layers = <<>> \/ ~b.ok THEN b
    ELSE BuildLayers(BuildStoreLayer(b, p, Head(layers)), p, Tail(layers))

\* Effect.provide(body, layer): the layer is built with the provide call's memo map,
\* then the body starts
Provide(layers) ==
    /\ provideCount < MaxProvides
    /\ LET p == provideCount + 1
           b == BuildLayers([ok |-> TRUE, registry |-> registry, addStoreLog |-> addStoreLog,
                             registryCount |-> registryCount, memoMap |-> NewMemoMap,
                             builtLayers |-> builtLayers], p, layers)
       IN  /\ b.ok
           /\ provideCount' = p
           /\ bodyState' = [bodyState EXCEPT ![p] = "running"]
           /\ registry' = b.registry
           /\ addStoreLog' = b.addStoreLog
           /\ registryCount' = b.registryCount
           /\ memoMap' = b.memoMap
           /\ builtLayers' = b.builtLayers
    /\ UNCHANGED <<transactions, transactionHistory, persisted, callCount,
                   opTransactions, confirmedWrites>>
    /\ UNCHANGED <<openVars, schemaVars, proxyVars, connVars, fiberVars>>

\* the body completes, with success or with a failure (of an operation or of its own)
EndBody(p, result) ==
    /\ bodyState[p] = "running"
    /\ bodyState' = [bodyState EXCEPT ![p] = result]
    /\ UNCHANGED <<provideCount, memoMap, registryCount, registry, transactions,
                   transactionHistory, persisted, callCount, builtLayers, addStoreLog,
                   opTransactions, confirmedWrites>>
    /\ UNCHANGED <<openVars, schemaVars, proxyVars, connVars, fiberVars>>

\* a body that may only call the services while no other body is running
RunningAlone(r) ==
    /\ registry[r].built
    /\ bodyState[registry[r].provide] = "running"
    /\ \A p \in Provides \ {registry[r].provide} : bodyState[p] # "running"

\* the body of the scope that registry r was built for is running
Running(r) ==
    /\ registry[r].built
    /\ bodyState[registry[r].provide] = "running"

\* transactionService.objectStore(storeName) called from the body
objectStore(r, storeName) ==
    /\ Running(r)
    /\ registry' = [registry EXCEPT ![r] = makeObjectStoreProxyService(@, storeName)]
    /\ addStoreLog' = [addStoreLog EXCEPT ![r] = Append(@, storeName)]
    /\ callCount' = callCount + 1
    /\ UNCHANGED <<provideCount, bodyState, memoMap, registryCount, transactions,
                   transactionHistory, persisted, builtLayers, opTransactions, confirmedWrites>>
    /\ UNCHANGED <<openVars, schemaVars, proxyVars, connVars, fiberVars>>

\* ------------------------------------------------------------------------
\* Object-store proxy operations
\* ------------------------------------------------------------------------
ObjectStoreAddExceptionType ==
    {"ReadOnlyError", "TransactionInactiveError", "DataError", "InvalidStateError",
     "DataCloneError", "ConstraintError"}

ObjectStoreClearExceptionType == {"InvalidStateError", "ReadOnlyError", "TransactionInactiveError"}

ObjectStorePutSyncExceptionType ==
    {"ReadOnlyError", "TransactionInactiveError", "DataError", "InvalidStateError", "DataCloneError"}

ObjectStorePutAsyncExceptionType ==
    {"ConstraintError", "QuotaExceededError", "AbortError", "UnknownError"}

ObjectStorePutExceptionType == ObjectStorePutSyncExceptionType \cup ObjectStorePutAsyncExceptionType

ObjectStoreGetExceptionType == {"TransactionInactiveError", "DataError", "InvalidStateError"}

ObjectStoreGetAllExceptionType == {"TransactionInactiveError", "DataError", "InvalidStateError"}

ObjectStoreDeleteExceptionType ==
    {"TransactionInactiveError", "ReadOnlyError", "InvalidStateError", "DataError"}

\* a matcher whose TypeError test stands before the switch
matchObjectStoreErrorAnyTypeError(error, operation) ==
    IF error = "TypeError" \/ error \in ObjectStorePutExceptionType
    THEN "IDBObjectStoreOperationError" ELSE "defect"

\* matchObjectStoreError: the typed error, or "defect" where the code returns null
matchObjectStoreError(error, operation) ==
    CASE operation = "add" ->
            IF error \in ObjectStoreAddExceptionType THEN "IDBObjectStoreOperationError" ELSE "defect"
      [] operation = "clear" ->
            IF error \in ObjectStoreClearExceptionType THEN "IDBObjectStoreOperationError" ELSE "defect"
      [] operation = "put" ->
            IF error \in ObjectStorePutExceptionType THEN "IDBObjectStoreOperationError" ELSE "defect"
      [] operation = "get" ->
            IF error \in ObjectStoreGetExceptionType THEN "IDBObjectStoreOperationError" ELSE "defect"
      [] operation = "getAll" ->
            IF error \in ObjectStoreGetAllExceptionType \cup {"TypeError"}
            THEN "IDBObjectStoreOperationError" ELSE "defect"
      [] operation = "delete" ->
            IF error \in ObjectStoreDeleteExceptionType THEN "IDBObjectStoreOperationError" ELSE "defect"
      [] OTHER -> "defect"

\* what the engine may signal on an issued request
RequestResults == {"success", "ConstraintError", "AbortError"}

\* useObjectStore with the memo test dropped: every call opens a transaction
liveTransactionIgnored(reg) == TRUE

\* useObjectStore: `if (!nativeTx)` on the value read from the liveTransaction ref
liveTransactionMissing(reg) == reg.liveTransaction = 0

\* A proxy operation (add/put/get/getAll/delete/clear): registry.useObjectStore(storeName)
\* - which opens and memoizes the native transaction when none is live - then the
\* request through useRawStoreRequest.  An unhandled error event on the request makes
\* the engine abort the transaction.
StoreOperation(r, storeName, operation, result) ==
    /\ Running(r)
    /\ storeName \in registry[r].proxies
    /\ LET reg == registry[r]
           mustOpen == liveTransactionMissing(reg)
           opened == getRawTransactionFromRawDatabaseEffect(storeNames(reg))
       IN  IF mustOpen /\ opened # "ok"
           THEN /\ registry' = [registry EXCEPT ![r] =
                       [reg EXCEPT !.operated = TRUE, !.lastError = opened,
                                   !.lastCall =
                                       [call |-> callCount + 1, store |-> storeName,
                                        missing |-> IF storeName \notin objectStoreNames
                                                    THEN "database" ELSE "none"]
                                       @@ TransactionError(opened, storeNames(reg),
                                                           reg.permissionRef)]]
                /\ UNCHANGED <<transactions, transactionHistory, opTransactions, confirmedWrites>>
           ELSE /\ mustOpen => Len(transactions) < MaxTransactions
                /\ LET t == IF mustOpen THEN Len(transactions) + 1 ELSE reg.liveTransaction
                       txns1 == IF mustOpen
                                THEN Append(transactions,
                                            NativeTransaction(r, storeNames(reg), reg.permissionRef,
                                                              Len(addStoreLog[r])))
                                ELSE transactions
                       resolved == getRawObjectStoreFromRawTransactionEffect(txns1[t], storeName)
                       readOnly == operation \in WriteOperations /\ txns1[t].mode = "readonly"
                       w == callCount + 1
                       error == IF resolved # "ok" THEN resolved
                                ELSE IF readOnly THEN matchObjectStoreError("ReadOnlyError", operation)
                                ELSE IF result = "success" THEN "none"
                                ELSE matchObjectStoreError(result, operation)
                       issued == resolved = "ok" /\ ~readOnly
                       txns2 == IF ~issued THEN txns1
                                ELSE IF result # "success"
                                THEN [txns1 EXCEPT ![t].state = "aborted", ![t].writes = {}]
                                ELSE IF operation \in WriteOperations
                                THEN [txns1 EXCEPT ![t].writes = @ \cup {w}]
                                ELSE txns1
                   IN  /\ transactions' = txns2
                       /\ transactionHistory' =
                             IF mustOpen
                             THEN Append(transactionHistory,
                                         HistoryEntry(storeNames(reg), reg.permissionRef))
                             ELSE transactionHistory
                       /\ registry' = [registry EXCEPT ![r] =
                             [reg EXCEPT !.liveTransaction = t, !.operated = TRUE,
                                         !.lastError = error,
                                         !.lastCall =
                                             [call |-> callCount + 1, store |-> storeName,
                                              missing |-> IF storeName \notin Range(txns1[t].storeNames)
                                                          THEN "transaction" ELSE "none"]
                                             @@ TransactionError(resolved, <<storeName>>,
                                                                 txns1[t].mode)]]
                       /\ opTransactions' = [opTransactions EXCEPT ![r] = @ \cup {t}]
                       /\ confirmedWrites' =
                             IF issued /\ result = "success" /\ operation \in WriteOperations
                             THEN [confirmedWrites EXCEPT ![r] = @ \cup {w}]
                             ELSE confirmedWrites
    /\ callCount' = callCount + 1
    /\ UNCHANGED <<provideCount, bodyState, memoMap, registryCount, persisted, builtLayers,
                   addStoreLog>>
    /\ UNCHANGED <<openVars, schemaVars, proxyVars, connVars, fiberVars>>

\* transactionService.use(cb, params): registers params.storeNames, sets params.mode
\* when given (mode = "none" stands for an omitted mode), then calls
\* registry.makeTransaction() and hands the transaction to cb
RECURSIVE addStores(_, _)
addStores(reg, names) ==
    IF names = <<>> THEN reg
    ELSE addStores(addStore(reg, Head(names)), Tail(names))

use(r, names, mode) ==
    /\ Running(r)
    /\ LET reg0 == addStores(registry[r], names)
           reg == IF mode # "none" THEN setPermissions(reg0, mode) ELSE reg0
           opened == getRawTransactionFromRawDatabaseEffect(storeNames(reg))
           log == addStoreLog[r] \o names
       IN  /\ addStoreLog' = [addStoreLog EXCEPT ![r] = log]
           /\ IF opened # "ok"
              THEN /\ registry' = [registry EXCEPT ![r] =
                          [reg EXCEPT !.usedUse = TRUE, !.lastError = opened]]
                   /\ UNCHANGED <<transactions, transactionHistory>>
              ELSE /\ Len(transactions) < MaxTransactions
                   /\ transactions' = Append(transactions,
                          NativeTransaction(r, storeNames(reg), reg.permissionRef, Len(log)))
                   /\ transactionHistory' = Append(transactionHistory,
                          HistoryEntry(storeNames(reg), reg.permissionRef))
                   /\ registry' = [registry EXCEPT ![r] =
                          [reg EXCEPT !.liveTransaction = Len(transactions) + 1,
                                      !.usedUse = TRUE, !.lastError = "none"]]
    /\ callCount' = callCount + 1
    /\ UNCHANGED <<provideCount, bodyState, memoMap, registryCount, persisted, builtLayers,
                   opTransactions, confirmedWrites>>
    /\ UNCHANGED <<openVars, schemaVars, proxyVars, connVars, fiberVars>>

\* Native engine: a transaction with no pending request commits once control has
\* returned to the event loop; this layer never calls abort() on it
AutoCommit(t) ==
    /\ t \in 1..Len(transactions)
    /\ transactions[t].state = "active"
    /\ transactions' = [transactions EXCEPT ![t].state = "committed"]
    /\ persisted' = persisted \cup transactions[t].writes
    /\ UNCHANGED <<provideCount, bodyState, memoMap, registryCount, registry,
                   transactionHistory, callCount, builtLayers, addStoreLog, opTransactions,
                   confirmedWrites>>
    /\ UNCHANGED <<openVars, schemaVars, proxyVars, connVars, fiberVars>>

UseStoreNames == {<<>>, <<"notes">>}

UseModes == {"none", "readwrite"}

\* ------------------------------------------------------------------------
\* Connection manager: IDBDatabaseConfig and the structure of a database
\* ------------------------------------------------------------------------
\* config.version left out: the engine opens the current version, or creates version 1
VersionOmitted == 0

Versions == 1..MaxVersion

\* a key path is a string (isArray = FALSE, one key) or an array of strings
KeyPath(isArray, keys) == [isArray |-> isArray, keys |-> keys]

\* index.options: left out, or { unique?, multiEntry? }, each member true, false or left out
NoOptions == [given |-> FALSE, unique |-> "undefined", multiEntry |-> "undefined"]

Options(unique, multiEntry) == [given |-> TRUE, unique |-> unique, multiEntry |-> multiEntry]

\* IDBObjectStoreIndexParams
IndexParams(name, keyPath, options) == [name |-> name, keyPath |-> keyPath, options |-> options]

\* IDBObjectStoreConfig (params, the store's own key path, plays no part in the upgrade logic)
StoreConfig(name, indexes) == [name |-> name, indexes |-> indexes]

ContactsByEmail ==
    StoreConfig("contacts",
                <<IndexParams("email", KeyPath(FALSE, <<"email">>), Options("true", "false"))>>)

ContactsByName ==
    StoreConfig("contacts",
                <<IndexParams("name", KeyPath(FALSE, <<"name">>), NoOptions),
                  IndexParams("email", KeyPath(TRUE, <<"name", "email">>),
                              Options("false", "false"))>>)

Notes == StoreConfig("notes", <<>>)

\* config.autoObjectStores: left out, empty, or a list of store configurations
AutoObjectStoresUndefined == [defined |-> FALSE, stores |-> <<>>]

AutoObjectStoresChoices ==
    {AutoObjectStoresUndefined} \cup
    {[defined |-> TRUE, stores |-> s] : s \in {<<>>, <<ContactsByEmail>>, <<ContactsByName, Notes>>}}

\* config.onUpgradeNeeded: left out, or a function whose record has a step for these versions
OnUpgradeNeededUndefined == [defined |-> FALSE, versions |-> {}]

OddVersions == {v \in Versions : v % 2 = 1}

OnUpgradeNeededChoices ==
    {OnUpgradeNeededUndefined} \cup
    {[defined |-> TRUE, versions |-> vs] : vs \in {{}, OddVersions, Versions \ OddVersions, Versions}}

Configs ==
    [version : {VersionOmitted} \cup Versions,
     autoObjectStores : AutoObjectStoresChoices,
     onUpgradeNeeded : OnUpgradeNeededChoices]

UpgradeStoreNames == {"contacts", "notes"}

UpgradeIndexNames == {"email", "name"}

\* a database the engine has never seen: version 0, no store.  calls lists the
\* structural calls the engine has carried out in the running versionchange transaction.
NewDatabase == [version |-> 0, stores |-> {}, indexes |-> {}, calls |-> <<>>]

\* a structural call the engine has carried out
NativeCall(op, storeName, indexName) == [op |-> op, store |-> storeName, index |-> indexName]

\* the store/index structure of a database
Structure(db) == [stores |-> db.stores, indexes |-> db.indexes]

\* the transaction as the running code finds it: active inside the upgradeneeded handler
\* and the callbacks of its requests, inactive in any other task, finished after
\* commit or abort
TransactionStatuses == {"active", "inactive", "finished"}

Ok(db) == [ok |-> TRUE, db |-> db, error |-> [tag |-> "none", cause |-> "none"]]

Failed(db, tag, cause) == [ok |-> FALSE, db |-> db, error |-> [tag |-> tag, cause |-> cause]]

\* new IDBDatabaseObjectStoreCreationError({ message, storeName, cause })
CreationFailed(db, storeName, cause) ==
    [ok |-> FALSE, db |-> db,
     error |-> [tag |-> "IDBDatabaseObjectStoreCreationError", cause |-> cause,
                storeName |-> storeName]]

\* ------------------------------------------------------------------------
\* Upgrade service (createUpgradeService)
\* ------------------------------------------------------------------------
CreateObjectStoreExceptionType ==
    {"InvalidStateError", "ConstraintError", "InvalidAccessError", "SyntaxError",
     "TransactionInactiveError"}

CreateObjectStoreIndexExceptionType ==
    {"ConstraintError", "InvalidAccessError", "InvalidStateError", "SyntaxError",
     "TransactionInactiveError"}

\* the index the engine creates for createIndex(name, keyPath, options)
NativeIndex(storeName, index) ==
    [store |-> storeName, name |-> index.name, keyPath |-> index.keyPath,
     unique |-> index.options.unique = "true",
     multiEntry |-> index.options.multiEntry = "true"]

\* store.createIndex(name, keyPath, options): "ok" or the name of the exception thrown
createIndex(db, storeName, index, status) ==
    IF status # "active" THEN "TransactionInactiveError"
    ELSE IF \E x \in db.indexes : x.store = storeName /\ x.name = index.name
    THEN "ConstraintError"
    ELSE IF index.keyPath.isArray /\ index.options.multiEntry = "true" THEN "InvalidAccessError"
    ELSE "ok"

addStoreIndex(db, storeName, index, status) ==
    LET thrown == createIndex(db, storeName, index, status)
    IN  IF thrown = "ok"
        THEN Ok([db EXCEPT !.indexes = @ \cup {NativeIndex(storeName, index)},
                           !.calls = Append(@, NativeCall("createIndex", storeName, index.name))])
        ELSE IF thrown \in CreateObjectStoreIndexExceptionType
        THEN CreationFailed(db, storeName, thrown)
        ELSE Failed(db, "defect", thrown)

\* Effect.forEach(indexes, (index) => addStoreIndex(store, index))
RECURSIVE addStoreIndexes(_, _, _, _)
addStoreIndexes(db, storeName, indexes, status) ==
    IF indexes = <<>> THEN Ok(db)
    ELSE LET r == addStoreIndex(db, storeName, Head(indexes), status)
         IN  IF r.ok THEN addStoreIndexes(r.db, storeName, Tail(indexes), status) ELSE r

\* db.createObjectStore(name, options): "ok" or the name of the exception thrown
dbCreateObjectStore(db, name, status) ==
    IF status = "finished" THEN "InvalidStateError"
    ELSE IF status = "inactive" THEN "TransactionInactiveError"
    ELSE IF name \in db.stores THEN "ConstraintError"
    ELSE "ok"

\* a createObjectStore that undoes the store and its indexes when an index fails
createObjectStoreCompensating(db, name, indexes, status) ==
    LET thrown == dbCreateObjectStore(db, name, status)
        r == addStoreIndexes([db EXCEPT !.stores = @ \cup {name},
                                        !.calls = Append(@, NativeCall("createObjectStore", name, "none"))],
                             name, indexes, status)
    IN  IF thrown = "ok"
        THEN IF r.ok THEN r ELSE [r EXCEPT !.db = db]
        ELSE IF thrown \in CreateObjectStoreExceptionType
        THEN CreationFailed(db, name, thrown)
        ELSE Failed(db, "defect", thrown)

\* createObjectStore: db.createObjectStore(name, options), then
\* Effect.tap((store) => Effect.forEach(indexes, (index) => addStoreIndex(store, index)))
createObjectStore(db, name, indexes, status) ==
    LET thrown == dbCreateObjectStore(db, name, status)
    IN  IF thrown = "ok"
        THEN addStoreIndexes([db EXCEPT !.stores = @ \cup {name},
                                        !.calls = Append(@, NativeCall("createObjectStore", name, "none"))],
                             name, indexes, status)
        ELSE IF thrown \in CreateObjectStoreExceptionType
        THEN CreationFailed(db, name, thrown)
        ELSE Failed(db, "defect", thrown)

\* db.deleteObjectStore(name): "ok" or the name of the exception thrown
dbDeleteObjectStore(db, name, status) ==
    IF status = "finished" THEN "InvalidStateError"
    ELSE IF status = "inactive" THEN "TransactionInactiveError"
    ELSE IF name \notin db.stores THEN "NotFoundError"
    ELSE "ok"

\* deleteObjectStore: every exception becomes an IDBDatabaseObjectStoreDeletionError
deleteObjectStore(db, name, status) ==
    LET thrown == dbDeleteObjectStore(db, name, status)
    IN  IF thrown = "ok"
        THEN Ok([db EXCEPT !.stores = @ \ {name},
                           !.indexes = {x \in @ : x.store # name},
                           !.calls = Append(@, NativeCall("deleteObjectStore", name, "none"))])
        ELSE Failed(db, "IDBDatabaseObjectStoreDeletionError", thrown)

\* upgradeTxn.objectStore(name).deleteIndex(indexName), called on the raw transaction:
\* nothing catches what it throws
deleteIndex(db, storeName, indexName, status) ==
    IF status = "finished" \/ storeName \notin db.stores
    THEN Failed(db, "defect", IF status = "finished" THEN "InvalidStateError" ELSE "NotFoundError")
    ELSE IF status = "inactive" THEN Failed(db, "defect", "TransactionInactiveError")
    ELSE IF ~\E x \in db.indexes : x.store = storeName /\ x.name = indexName
    THEN Failed(db, "defect", "NotFoundError")
    ELSE Ok([db EXCEPT !.indexes = {x \in @ : ~(x.store = storeName /\ x.name = indexName)},
                       !.calls = Append(@, NativeCall("deleteIndex", storeName, indexName))])

\* key paths compared by their content only
keyPathsMatchByContent(incoming, existing) == incoming.keys = existing.keys

\* keyPathsMatch(incoming, existing)
keyPathsMatch(incoming, existing) ==
    IF incoming.isArray /\ existing.isArray
    THEN /\ Len(incoming.keys) = Len(existing.keys)
         /\ \A index \in 1..Len(incoming.keys) : incoming.keys[index] = existing.keys[index]
    ELSE IF incoming.isArray \/ existing.isArray THEN FALSE
    ELSE incoming.keys[1] = existing.keys[1]

\* existing.unique !== incoming.options.unique, a boolean against true, false or undefined
StrictlyDiffers(existing, incoming) == incoming # (IF existing THEN "true" ELSE "false")

\* one declared index of a store that exists already
reconcileIndex(db, storeName, incoming, existingIndexNames, status) ==
    IF incoming.name \in existingIndexNames
    THEN LET existing == CHOOSE x \in db.indexes : x.store = storeName /\ x.name = incoming.name
             differs == \/ ~keyPathsMatch(incoming.keyPath, existing.keyPath)
                        \/ incoming.options.given
                             /\ StrictlyDiffers(existing.unique, incoming.options.unique)
                        \/ incoming.options.given
                             /\ StrictlyDiffers(existing.multiEntry, incoming.options.multiEntry)
         IN  IF ~differs THEN Ok(db)
             ELSE IF status # "active" THEN Failed(db, "defect", "TransactionInactiveError")
             ELSE addStoreIndex([db EXCEPT !.indexes = @ \ {existing},
                                           !.calls = Append(@, NativeCall("deleteIndex", storeName,
                                                                          incoming.name))],
                                storeName, incoming, status)
    ELSE addStoreIndex(db, storeName, incoming, status)

RECURSIVE reconcileIndexes(_, _, _, _, _)
reconcileIndexes(db, storeName, indexes, existingIndexNames, status) ==
    IF indexes = <<>> THEN Ok(db)
    ELSE LET r == reconcileIndex(db, storeName, Head(indexes), existingIndexNames, status)
         IN  IF r.ok
             THEN reconcileIndexes(r.db, storeName, Tail(indexes), existingIndexNames, status)
             ELSE r

\* existingIndexNames.forEach: store.deleteIndex(indexName) for the names no longer
\* declared (the order among these deletions is left open)
RECURSIVE deleteIndexes(_, _, _)
deleteIndexes(db, storeName, names) ==
    IF names = {} THEN db
    ELSE LET indexName == CHOOSE n \in names : TRUE
         IN  deleteIndexes([db EXCEPT !.indexes = {x \in @ : ~(x.store = storeName /\ x.name = indexName)},
                                      !.calls = Append(@, NativeCall("deleteIndex", storeName, indexName))],
                           storeName, names \ {indexName})

\* a reconciliation that drops a store that exists and creates it again as declared
autoGenerateObjectStoreRecreating(db, storeConfig, status) ==
    IF storeConfig.name \in db.stores
    THEN LET d == deleteObjectStore(db, storeConfig.name, status)
         IN  IF d.ok
             THEN createObjectStore(d.db, storeConfig.name, storeConfig.indexes, status)
             ELSE d
    ELSE createObjectStore(db, storeConfig.name, storeConfig.indexes, status)

\* one store configuration of autoGenerateObjectStores
autoGenerateObjectStore(db, storeConfig, status) ==
    IF storeConfig.name \in db.stores
    THEN IF status = "finished" THEN Failed(db, "IDBTransactionError", "InvalidStateError")
         ELSE LET existingIndexNames ==
                      {x.name : x \in {y \in db.indexes : y.store = storeConfig.name}}
                  declared == {storeConfig.indexes[i].name : i \in 1..Len(storeConfig.indexes)}
                  r == reconcileIndexes(db, storeConfig.name, storeConfig.indexes,
                                        existingIndexNames, status)
                  deprecated == existingIndexNames \ declared
              IN  IF ~r.ok THEN r
                  ELSE IF deprecated = {} THEN r
                  ELSE IF status # "active" THEN Failed(r.db, "defect", "TransactionInactiveError")
                  ELSE Ok(deleteIndexes(r.db, storeConfig.name, deprecated))
    ELSE createObjectStore(db, storeConfig.name, storeConfig.indexes, status)

\* autoGenerateObjectStores: Effect.forEach(config.autoObjectStores ?? [], ...)
RECURSIVE autoGenerateObjectStores(_, _, _)
autoGenerateObjectStores(db, stores, status) ==
    IF stores = <<>> THEN Ok(db)
    ELSE LET r == autoGenerateObjectStore(db, Head(stores), status)
         IN  IF r.ok THEN autoGenerateObjectStores(r.db, Tail(stores), status) ELSE r

\* ------------------------------------------------------------------------
\* IDBFactoryService.open: the open request, its upgrade and the migration fiber
\* ------------------------------------------------------------------------
NoCause == [tag |-> "none", cause |-> "none"]

NoConfig ==
    [version |-> VersionOmitted, autoObjectStores |-> AutoObjectStoresUndefined,
     onUpgradeNeeded |-> OnUpgradeNeededUndefined]

NoRequest == [readyState |-> "none", oldVersion |-> 0, newVersion |-> 0, error |-> "none"]

NoUpgradeTxn ==
    [state |-> "none", db |-> NewDatabase, requestPending |-> FALSE, abortPending |-> FALSE]

\* let upgradeFiber: RuntimeFiber | undefined
NoFiber ==
    [state |-> "undefined", exit |-> "none", cause |-> NoCause, current |-> 0,
     inCallback |-> FALSE, pendingSuccess |-> FALSE]

NotResumed == [kind |-> "none", message |-> "none", cause |-> NoCause]

OpenInit ==
    /\ openCount = 0
    /\ config = NoConfig
    /\ database = NewDatabase
    /\ request = NoRequest
    /\ upgradeTxn = NoUpgradeTxn
    /\ upgradeFiber = NoFiber
    /\ orderedMigrations = <<>>
    /\ migrationLog = <<>>
    /\ stepOps = 0
    /\ stepStart = Structure(NewDatabase)
    /\ resumed = NotResumed
    /\ failedUpgrade = [happened |-> FALSE, before |-> Structure(NewDatabase),
                        atStep |-> Structure(NewDatabase)]

\* Effect.async settles with the first value handed to resume; later calls are ignored
resume(value) == IF resumed.kind = "none" THEN value ELSE resumed

\* what the effect returned by open(config) has completed with, if it has
OpenResult ==
    IF resumed.kind = "fail"
    THEN [tag |-> "IDBDatabaseOpenError", message |-> resumed.message, cause |-> resumed.cause]
    ELSE IF resumed.kind = "die"
    THEN [tag |-> "defect", message |-> resumed.message, cause |-> resumed.cause]
    ELSE IF resumed.kind = "succeed"
    THEN [tag |-> "handle", message |-> "none", cause |-> NoCause]
    ELSE IF resumed.kind = "awaitFiber" /\ upgradeFiber.state = "done"
    THEN IF upgradeFiber.exit = "success"
         THEN [tag |-> "handle", message |-> "none", cause |-> NoCause]
         ELSE [tag |-> "IDBDatabaseOpenError", message |-> "upgrade",
               cause |-> upgradeFiber.cause]
    ELSE [tag |-> "pending", message |-> "none", cause |-> NoCause]

\* the version the engine opens for indexedDB.open(config.name, config.version)
requestedVersion(cfg) ==
    IF cfg.version = VersionOmitted
    THEN IF database.version = 0 THEN 1 ELSE database.version
    ELSE cfg.version

\* dbFactory.open(config): indexedDB.open(name, version) hands back a pending request and
\* the three handlers are installed.  A later open is one made after the earlier one
\* has settled and its connection is gone.
Open(cfg) ==
    /\ openCount < MaxOpens
    /\ request.readyState # "pending"
    /\ upgradeFiber.state \in {"undefined", "done"}
    /\ upgradeTxn.state # "active"
    /\ openCount' = openCount + 1
    /\ config' = cfg
    /\ request' = [readyState |-> "pending", oldVersion |-> database.version,
                   newVersion |-> requestedVersion(cfg), error |-> "none"]
    /\ upgradeTxn' = NoUpgradeTxn
    /\ upgradeFiber' = NoFiber
    /\ orderedMigrations' = <<>>
    /\ migrationLog' = <<>>
    /\ stepStart' = Structure(database)
    /\ resumed' = NotResumed
    /\ UNCHANGED <<database, stepOps, failedUpgrade>>
    /\ UNCHANGED <<txnVars, schemaVars, proxyVars, connVars, fiberVars>>

\* const startVersion = event.oldVersion, the loop starting one version early
startVersionInclusive(oldVersion) == oldVersion

\* const startVersion = event.oldVersion + 1
startVersion(oldVersion) == oldVersion + 1

\* both branches of the loop body taken for a version that has an explicit step
migrationForBoth(cfg, version) ==
    (IF cfg.onUpgradeNeeded.defined /\ version \in cfg.onUpgradeNeeded.versions
     THEN <<[version |-> version, kind |-> "explicit"]>> ELSE <<>>)
    \o (IF Len(cfg.autoObjectStores.stores) > 0
        THEN <<[version |-> version, kind |-> "auto"]>> ELSE <<>>)

\* the loop body: migrationEffects[version] if there is one, else autoGenerateObjectStores
\* if config.autoObjectStores?.length, else nothing
migrationFor(cfg, version) ==
    IF cfg.onUpgradeNeeded.defined /\ version \in cfg.onUpgradeNeeded.versions
    THEN <<[version |-> version, kind |-> "explicit"]>>
    ELSE IF Len(cfg.autoObjectStores.stores) > 0
    THEN <<[version |-> version, kind |-> "auto"]>>
    ELSE <<>>

\* for (let version = startVersion; version <= endVersion; version++)
RECURSIVE collectMigrations(_, _, _)
collectMigrations(cfg, version, endVersion) ==
    IF version > endVersion THEN <<>>
    ELSE migrationFor(cfg, version) \o collectMigrations(cfg, version + 1, endVersion)

\* the engine aborts the transaction once the callback of an unhandled request error
\* has returned
afterDispatch(txn) ==
    IF txn.abortPending /\ txn.state = "active"
    THEN [txn EXCEPT !.state = "aborted", !.abortPending = FALSE, !.db = database]
    ELSE txn

\* an Effect.all that goes on with the next step after a step has failed
FiberGoesOn(exit, cause, txn) ==
    /\ upgradeTxn' = afterDispatch(txn)
    /\ resumed' = IF exit = "failure"
                  THEN resume([kind |-> "fail", message |-> "upgrade", cause |-> cause])
                  ELSE resumed
    /\ failedUpgrade' = IF exit = "failure"
                        THEN [happened |-> TRUE, before |-> Structure(database),
                              atStep |-> stepStart]
                        ELSE failedUpgrade
    /\ IF exit = "failure" /\ upgradeFiber.current < Len(orderedMigrations)
       THEN /\ upgradeFiber' = [upgradeFiber EXCEPT !.current = @ + 1]
            /\ migrationLog' = Append(migrationLog, orderedMigrations[upgradeFiber.current + 1])
            /\ UNCHANGED stepStart
       ELSE /\ upgradeFiber' = [upgradeFiber EXCEPT !.state = "done", !.exit = exit,
                                                    !.cause = cause]
            /\ UNCHANGED <<migrationLog, stepStart>>

\* the fiber completes; the callback of runPromiseExit(Fiber.await(upgradeFiber)).then
\* runs before the engine delivers anything else
FiberEnds(exit, cause, txn) ==
    /\ upgradeFiber' = [upgradeFiber EXCEPT !.state = "done", !.exit = exit, !.cause = cause]
    /\ upgradeTxn' = afterDispatch(txn)
    /\ resumed' = IF exit = "failure"
                  THEN resume([kind |-> "fail", message |-> "upgrade", cause |-> cause])
                  ELSE resumed
    /\ failedUpgrade' = IF exit = "failure"
                        THEN [happened |-> TRUE, before |-> Structure(database),
                              atStep |-> stepStart]
                        ELSE failedUpgrade
    /\ UNCHANGED <<migrationLog, stepStart>>

\* the running step completes: Effect.all goes on to the next one, or succeeds
StepSucceeds(txn) ==
    IF upgradeFiber.current < Len(orderedMigrations)
    THEN /\ upgradeFiber' = [upgradeFiber EXCEPT !.current = @ + 1]
         /\ migrationLog' = Append(migrationLog, orderedMigrations[upgradeFiber.current + 1])
         /\ stepStart' = Structure(txn.db)
         /\ upgradeTxn' = txn
         /\ UNCHANGED <<resumed, failedUpgrade>>
    ELSE FiberEnds("success", NoCause, txn)

\* the outcome of a call the running step made on the upgrade service
StepCall(r) ==
    IF r.ok
    THEN /\ upgradeTxn' = [upgradeTxn EXCEPT !.db = r.db]
         /\ UNCHANGED <<upgradeFiber, migrationLog, stepStart, resumed, failedUpgrade>>
    ELSE FiberEnds("failure", r.error, [upgradeTxn EXCEPT !.db = r.db])

\* request.onupgradeneeded, on the versionchange transaction the engine has started,
\* up to the point where the forked fiber runs its first step
OnUpgradeNeeded ==
    /\ request.readyState = "pending"
    /\ upgradeTxn.state = "none"
    /\ request.newVersion > database.version
    /\ LET txn == [state |-> "active", db |-> [database EXCEPT !.version = request.newVersion],
                   requestPending |-> FALSE, abortPending |-> FALSE]
           steps == collectMigrations(config, startVersion(request.oldVersion), txn.db.version)
       IN  IF ~config.onUpgradeNeeded.defined /\ ~config.autoObjectStores.defined
           THEN /\ upgradeTxn' = txn
                /\ UNCHANGED <<upgradeFiber, orderedMigrations, migrationLog>>
           ELSE /\ upgradeTxn' = txn
                /\ orderedMigrations' = steps
                /\ IF steps = <<>>
                   THEN /\ upgradeFiber' = [NoFiber EXCEPT !.state = "done", !.exit = "success"]
                        /\ migrationLog' = <<>>
                   ELSE /\ upgradeFiber' = [NoFiber EXCEPT !.state = "running", !.current = 1,
                                                           !.inCallback = TRUE]
                        /\ migrationLog' = <<steps[1]>>
    /\ failedUpgrade' = [failedUpgrade EXCEPT !.happened = FALSE]
    /\ UNCHANGED <<openCount, config, database, request, stepOps, stepStart, resumed>>
    /\ UNCHANGED <<txnVars, schemaVars, proxyVars, connVars, fiberVars>>

FiberRunning(kind) ==
    /\ upgradeFiber.state = "running"
    /\ orderedMigrations[upgradeFiber.current].kind = kind

TransactionStatus ==
    IF upgradeTxn.state # "active" THEN "finished"
    ELSE IF upgradeFiber.inCallback THEN "active"
    ELSE "inactive"

\* a step that is upgradeService.autoGenerateObjectStores
AutoStep ==
    /\ FiberRunning("auto")
    /\ LET r == autoGenerateObjectStores(upgradeTxn.db, config.autoObjectStores.stores,
                                         TransactionStatus)
       IN  IF r.ok THEN StepSucceeds([upgradeTxn EXCEPT !.db = r.db])
           ELSE FiberEnds("failure", r.error, [upgradeTxn EXCEPT !.db = r.db])
    /\ UNCHANGED <<openCount, config, database, request, orderedMigrations, stepOps>>
    /\ UNCHANGED <<txnVars, schemaVars, proxyVars, connVars, fiberVars>>

\* the calls an explicit step may make on the upgrade service
UpgradeCalls ==
    [op : {"createObjectStore", "deleteObjectStore"}, store : UpgradeStoreNames,
     index : {"none"}]
    \cup [op : {"deleteIndex"}, store : UpgradeStoreNames, index : UpgradeIndexNames]
    \cup [op : {"autoGenerateObjectStores"}, store : {"none"}, index : {"none"}]

upgradeCall(call, db, status) ==
    IF call.op = "createObjectStore" THEN createObjectStore(db, call.store, <<>>, status)
    ELSE IF call.op = "deleteObjectStore" THEN deleteObjectStore(db, call.store, status)
    ELSE IF call.op = "deleteIndex" THEN deleteIndex(db, call.store, call.index, status)
    ELSE autoGenerateObjectStores(db, config.autoObjectStores.stores, status)

\* an explicit step changes the structure through the upgrade service; a failure of
\* the call fails the step
ExplicitCall(call) ==
    /\ FiberRunning("explicit")
    /\ stepOps < MaxStepOps
    /\ stepOps' = stepOps + 1
    /\ StepCall(upgradeCall(call, upgradeTxn.db, TransactionStatus))
    /\ UNCHANGED <<openCount, config, database, request, orderedMigrations>>
    /\ UNCHANGED <<txnVars, schemaVars, proxyVars, connVars, fiberVars>>

\* useObjectStore of the registry of a scope: a native transaction over the store is
\* opened with db.transaction and recorded in the history
registryUseObjectStore(storeName) ==
    [transactions |-> <<NativeTransaction(0, <<storeName>>, "readwrite", 0)>>,
     history |-> <<HistoryEntry(<<storeName>>, "readwrite")>>]

\* useObjectStore of the mock registry given to upgradeService.objectStore: the store is
\* resolved on upgradeTxn (makeTransaction is Effect.succeed(upgradeTxn)); there is no
\* db.transaction call and no history.push
upgradeUseObjectStore(storeName) == [transactions |-> <<>>, history |-> <<>>]

\* an explicit step issues a request through upgradeService.objectStore(storeName):
\* the mock registry resolves the store on the upgrade transaction, then store.add(...)
ExplicitRequest(storeName) ==
    /\ FiberRunning("explicit")
    /\ stepOps < MaxStepOps
    /\ stepOps' = stepOps + 1
    /\ LET used == upgradeUseObjectStore(storeName)
       IN  /\ transactions' = transactions \o used.transactions
           /\ transactionHistory' = transactionHistory \o used.history
    /\ LET status == TransactionStatus
       IN  IF status = "finished"
           THEN FiberEnds("failure", [tag |-> "IDBTransactionError",
                                      cause |-> "InvalidStateError"], upgradeTxn)
           ELSE IF storeName \notin upgradeTxn.db.stores
           THEN FiberEnds("failure", [tag |-> "IDBTransactionError",
                                      cause |-> "NotFoundError"], upgradeTxn)
           ELSE IF status = "inactive"
           THEN FiberEnds("failure",
                          [tag |-> matchObjectStoreError("TransactionInactiveError", "add"),
                           cause |-> "TransactionInactiveError"], upgradeTxn)
           ELSE /\ upgradeFiber' = [upgradeFiber EXCEPT !.state = "awaitingRequest"]
                /\ upgradeTxn' = afterDispatch([upgradeTxn EXCEPT !.requestPending = TRUE])
                /\ UNCHANGED <<migrationLog, stepStart, resumed, failedUpgrade>>
    /\ UNCHANGED <<openCount, config, database, request, orderedMigrations>>
    /\ UNCHANGED <<provideCount, bodyState, memoMap, registryCount, registry, persisted,
                   callCount, builtLayers, addStoreLog, opTransactions, confirmedWrites>>
    /\ UNCHANGED <<schemaVars, proxyVars, connVars, fiberVars>>

\* an explicit step waits for something that is not a request of the transaction
ExplicitSleep ==
    /\ FiberRunning("explicit")
    /\ stepOps < MaxStepOps
    /\ stepOps' = stepOps + 1
    /\ upgradeFiber' = [upgradeFiber EXCEPT !.state = "awaitingTimer"]
    /\ upgradeTxn' = afterDispatch(upgradeTxn)
    /\ UNCHANGED <<openCount, config, database, request, orderedMigrations, migrationLog,
                   stepStart, resumed, failedUpgrade>>
    /\ UNCHANGED <<txnVars, schemaVars, proxyVars, connVars, fiberVars>>

\* an explicit step ends: Effect.fail("Simulated upgrade failure"), or success
ExplicitEnd(exit) ==
    /\ FiberRunning("explicit")
    /\ IF exit = "failure"
       THEN FiberEnds("failure", [tag |-> "UserFailure",
                                  cause |-> "Simulated upgrade failure"], upgradeTxn)
       ELSE StepSucceeds(upgradeTxn)
    /\ UNCHANGED <<openCount, config, database, request, orderedMigrations, stepOps>>
    /\ UNCHANGED <<txnVars, schemaVars, proxyVars, connVars, fiberVars>>

\* the fiber is interrupted while a step is in progress: its exit is a failure whose
\* cause is the interruption, which Exit.match hands to onFailure like any other.
\* A request the step was waiting for is completed by the engine unobserved.
FiberInterrupt ==
    /\ upgradeFiber.state \in {"running", "awaitingRequest", "awaitingTimer"}
    /\ FiberEnds("failure", [tag |-> "Interrupt", cause |-> "interrupted"],
                 [upgradeTxn EXCEPT !.requestPending = FALSE])
    /\ UNCHANGED <<openCount, config, database, request, orderedMigrations, stepOps>>
    /\ UNCHANGED <<txnVars, schemaVars, proxyVars, connVars, fiberVars>>

\* the engine reports success on the request the step waits for
RequestSuccess ==
    /\ upgradeFiber.state = "awaitingRequest"
    /\ upgradeTxn.state = "active"
    /\ upgradeFiber' = [upgradeFiber EXCEPT !.state = "running", !.inCallback = TRUE]
    /\ upgradeTxn' = [upgradeTxn EXCEPT !.requestPending = FALSE]
    /\ UNCHANGED <<openCount, config, database, request, orderedMigrations, migrationLog,
                   stepOps, stepStart, resumed, failedUpgrade>>
    /\ UNCHANGED <<txnVars, schemaVars, proxyVars, connVars, fiberVars>>

\* the engine reports an error on the request the step waits for.  useRawStoreRequest
\* does not call preventDefault, so the transaction is aborted when the callback has
\* returned.  The step either recovers from the failed operation or fails with it.
RequestError(caught) ==
    /\ upgradeFiber.state = "awaitingRequest"
    /\ LET kind == IF upgradeTxn.state = "active" THEN "ConstraintError" ELSE "AbortError"
           txn == [upgradeTxn EXCEPT !.requestPending = FALSE, !.abortPending = TRUE]
       IN  IF caught
           THEN /\ upgradeFiber' = [upgradeFiber EXCEPT !.state = "running",
                                                        !.inCallback = TRUE]
                /\ upgradeTxn' = txn
                /\ UNCHANGED <<migrationLog, stepStart, resumed, failedUpgrade>>
           ELSE FiberEnds("failure", [tag |-> matchObjectStoreError(kind, "add"),
                                      cause |-> kind], txn)
    /\ UNCHANGED <<openCount, config, database, request, orderedMigrations, stepOps>>
    /\ UNCHANGED <<txnVars, schemaVars, proxyVars, connVars, fiberVars>>

\* what the step waited for outside the transaction arrives, in a task of its own
TimerFires ==
    /\ upgradeFiber.state = "awaitingTimer"
    /\ upgradeFiber' = [upgradeFiber EXCEPT !.state = "running", !.inCallback = FALSE]
    /\ UNCHANGED <<openCount, config, database, request, upgradeTxn, orderedMigrations,
                   migrationLog, stepOps, stepStart, resumed, failedUpgrade>>
    /\ UNCHANGED <<txnVars, schemaVars, proxyVars, connVars, fiberVars>>

\* the engine commits the versionchange transaction once no request is pending and no
\* callback is running; nothing in this layer calls abort() on it
CommitUpgrade ==
    /\ upgradeTxn.state = "active"
    /\ ~upgradeTxn.requestPending
    /\ upgradeFiber.state # "running"
    /\ upgradeTxn' = [upgradeTxn EXCEPT !.state = "committed"]
    /\ database' = [upgradeTxn.db EXCEPT !.calls = <<>>]
    /\ UNCHANGED <<openCount, config, request, upgradeFiber, orderedMigrations, migrationLog,
                   stepOps, stepStart, resumed, failedUpgrade>>
    /\ UNCHANGED <<txnVars, schemaVars, proxyVars, connVars, fiberVars>>

\* request.onsuccess with the test for the fiber left out
onSuccessWithoutFiber(fiber) == [kind |-> "succeed", message |-> "none", cause |-> NoCause]

\* a request.onsuccess that leaves the resume to the handler of the fiber when there
\* is a fiber
onSuccessLeavingFiber(fiber) ==
    IF fiber.state # "undefined" THEN resumed
    ELSE [kind |-> "succeed", message |-> "none", cause |-> NoCause]

\* request.onsuccess: if (upgradeFiber) resume(Fiber.await(upgradeFiber) ...)
\* else resume(Effect.succeed(request.result))
onSuccess(fiber) ==
    IF fiber.state # "undefined"
    THEN [kind |-> "awaitFiber", message |-> "none", cause |-> NoCause]
    ELSE [kind |-> "succeed", message |-> "none", cause |-> NoCause]

\* the engine fires success at the open request: no upgrade was needed, or the
\* versionchange transaction has committed
OnSuccess ==
    /\ request.readyState = "pending"
    /\ upgradeFiber.state # "running"
    /\ \/ upgradeTxn.state = "committed"
       \/ upgradeTxn.state = "none" /\ request.newVersion = database.version
    /\ request' = [request EXCEPT !.readyState = "done"]
    /\ resumed' = resume(onSuccess(upgradeFiber))
    /\ upgradeFiber' = [upgradeFiber EXCEPT !.pendingSuccess =
                           upgradeFiber.state \notin {"undefined", "done"}]
    /\ UNCHANGED <<openCount, config, database, upgradeTxn, orderedMigrations, migrationLog,
                   stepOps, stepStart, failedUpgrade>>
    /\ UNCHANGED <<txnVars, schemaVars, proxyVars, connVars, fiberVars>>

IDBRequestExceptionType ==
    {"AbortError", "ConstraintError", "NotReadableError", "QuotaExceededError", "UnknownError",
     "VersionError"}

\* request.onerror
onError(error) ==
    IF error \in IDBRequestExceptionType
    THEN [kind |-> "fail", message |-> "async", cause |-> [tag |-> "DOMException", cause |-> error]]
    ELSE [kind |-> "die", message |-> "unexpected", cause |-> [tag |-> "DOMException", cause |-> error]]

\* the engine fires error at the open request: the requested version is lower than the
\* database's, or the versionchange transaction was aborted
OnError ==
    /\ request.readyState = "pending"
    /\ upgradeFiber.state # "running"
    /\ ~upgradeTxn.requestPending
    /\ \/ upgradeTxn.state = "aborted"
       \/ upgradeTxn.state = "none" /\ request.newVersion < database.version
    /\ LET error == IF upgradeTxn.state = "aborted" THEN "AbortError" ELSE "VersionError"
       IN  /\ request' = [request EXCEPT !.readyState = "done", !.error = error]
           /\ resumed' = resume(onError(error))
    /\ UNCHANGED <<openCount, config, database, upgradeTxn, upgradeFiber, orderedMigrations,
                   migrationLog, stepOps, stepStart, failedUpgrade>>
    /\ UNCHANGED <<txnVars, schemaVars, proxyVars, connVars, fiberVars>>

\* ------------------------------------------------------------------------
\* autoGenerateObjectStores over successive versions of a declared schema
\* ------------------------------------------------------------------------
SchemaKeyPaths ==
    {KeyPath(FALSE, <<"email">>), KeyPath(TRUE, <<"email">>), KeyPath(TRUE, <<"name", "email">>)}

\* no options, { unique: true }, { unique: false, multiEntry: false }, { multiEntry: true }
SchemaOptions ==
    {NoOptions, Options("true", "undefined"), Options("false", "false"),
     Options("undefined", "true")}

SchemaIndexes(name) ==
    {IndexParams(name, kp, o) : kp \in SchemaKeyPaths, o \in SchemaOptions}

\* the index lists a version of the schema may declare for store "contacts"
SchemaIndexLists ==
    {<<>>}
    \cup {<<i>> : i \in SchemaIndexes("email") \cup SchemaIndexes("name")}
    \cup {<<i, j>> : i \in SchemaIndexes("email"), j \in SchemaIndexes("name")}

\* a version of the schema: store "contacts" with its indexes, and store "notes"
Schemas == {<<StoreConfig("contacts", indexes), Notes>> : indexes \in SchemaIndexLists}

\* storeConfig.params (IDBObjectStoreParameters): {}, or a key path with a key
\* generator
DefaultParams == [keyPath |-> "null", autoIncrement |-> FALSE]

StoreParamsChoices == {DefaultParams, [keyPath |-> "id", autoIncrement |-> TRUE]}

\* the keys of the records the application stores
RecordKeys == {1, 2}

\* a store the database does not have
NoStore == [exists |-> FALSE, params |-> DefaultParams, records |-> {}]

\* what the engine does to the stores for the structural calls of a run:
\* createObjectStore(name, params) makes an empty store with these parameters,
\* deleteObjectStore(name) drops the store with its records, createIndex and
\* deleteIndex leave the parameters and the records of their store alone
RECURSIVE nativeStores(_, _, _)
nativeStores(state, calls, params) ==
    IF calls = <<>> THEN state
    ELSE LET call == Head(calls)
             next == IF call.op = "createObjectStore"
                     THEN [state EXCEPT ![call.store] =
                              [exists |-> TRUE, params |-> params, records |-> {}]]
                     ELSE IF call.op = "deleteObjectStore"
                     THEN [state EXCEPT ![call.store] = NoStore]
                     ELSE state
         IN  nativeStores(next, Tail(calls), params)

\* versions of a schema that leave a store of the earlier version out
NotesByName ==
    StoreConfig("notes", <<IndexParams("name", KeyPath(FALSE, <<"name">>), NoOptions)>>)

FrameSchemas == {<<ContactsByName, Notes>>, <<ContactsByEmail>>, <<Notes>>, <<NotesByName>>}

SchemaInit ==
    /\ schemaDb = NewDatabase
    /\ schemaRun = [count |-> 0, declared |-> <<>>, ok |-> TRUE, repeated |-> FALSE,
                    before |-> Structure(NewDatabase), error |-> NoCause,
                    params |-> DefaultParams]
    /\ schemaStores = [name \in UpgradeStoreNames |-> NoStore]

\* an upgrade step that is autoGenerateObjectStores, run in the active versionchange
\* transaction of the next upgrade; schemaDb.calls are the calls of this run
Reconcile(stores, params) ==
    /\ schemaRun.count < MaxRuns
    /\ LET r == autoGenerateObjectStores([schemaDb EXCEPT !.calls = <<>>], stores, "active")
       IN  /\ schemaDb' = r.db
           /\ schemaRun' = [count |-> schemaRun.count + 1, declared |-> stores, ok |-> r.ok,
                            repeated |-> schemaRun.count > 0 /\ schemaRun.ok
                                         /\ schemaRun.declared = stores,
                            before |-> Structure(schemaDb), error |-> r.error,
                            params |-> params]
           /\ schemaStores' = nativeStores(schemaStores, r.db.calls, params)
    /\ UNCHANGED <<txnVars, openVars, proxyVars, connVars, fiberVars>>

\* between two upgrades the application stores a record in a store of the database
\* (the put of the store proxy, its request succeeding)
StorePut(storeName, key) ==
    /\ schemaStores[storeName].exists
    /\ schemaStores' = [schemaStores EXCEPT ![storeName].records = @ \cup {key}]
    /\ UNCHANGED <<schemaDb, schemaRun>>
    /\ UNCHANGED <<txnVars, openVars, proxyVars, connVars, fiberVars>>

\* ------------------------------------------------------------------------
\* Requests of the store proxy and of the index proxy
\* ------------------------------------------------------------------------
\* the names of the DOMExceptions the engine raises; "VersionError" stands for the
\* names that no list of the proxies or of the upgrade service mentions
DOMExceptionNames ==
    {"ReadOnlyError", "TransactionInactiveError", "DataError", "InvalidStateError",
     "DataCloneError", "ConstraintError", "QuotaExceededError", "AbortError", "UnknownError",
     "NotFoundError", "VersionError", "SyntaxError", "InvalidAccessError"}

\* what a native method may throw when called: a DOMException, a TypeError, another Error
ThrownErrors == DOMExceptionNames \cup {"TypeError", "RangeError"}

\* what the request reports later: its success event, or an error event whose
\* request.error is a DOMException
RequestEvents == {"success"} \cup DOMExceptionNames

ObjectStoreIndexExceptionType == {"InvalidStateError", "NotFoundError"}

IndexServiceOperations == {"get", "getAll", "count", "getKey", "getAllKeys"}

IndexCountExceptionType == {"TransactionInactiveError", "DataError", "InvalidStateError"}

IndexGetExceptionType == {"TransactionInactiveError", "DataError", "InvalidStateError"}

IndexGetAllExceptionType == {"TransactionInactiveError", "InvalidStateError"}

IndexGetKeyExceptionType == {"TransactionInactiveError", "DataError", "InvalidStateError"}

IndexGetAllKeysExceptionType == {"TransactionInactiveError", "InvalidStateError"}

\* a matcher with one list for all index operations
matchStoreIndexErrorOneList(error, operation) ==
    IF error \in IndexGetExceptionType \cup {"TypeError"}
    THEN "IDBObjectStoreIndexOperationError" ELSE "defect"

\* matchStoreIndexError: the typed error, or "defect" where the code returns null
matchStoreIndexError(error, operation) ==
    CASE operation = "get" ->
            IF error \in IndexGetExceptionType
            THEN "IDBObjectStoreIndexOperationError" ELSE "defect"
      [] operation = "getAll" ->
            IF error \in IndexGetAllExceptionType \cup {"TypeError"}
            THEN "IDBObjectStoreIndexOperationError" ELSE "defect"
      [] operation = "getKey" ->
            IF error \in IndexGetKeyExceptionType
            THEN "IDBObjectStoreIndexOperationError" ELSE "defect"
      [] operation = "getAllKeys" ->
            IF error \in IndexGetAllKeysExceptionType \cup {"TypeError"}
            THEN "IDBObjectStoreIndexOperationError" ELSE "defect"
      [] operation = "count" ->
            IF error \in IndexCountExceptionType
            THEN "IDBObjectStoreIndexOperationError" ELSE "defect"
      [] OTHER -> "defect"

\* how an effect of the proxies completes
Pending == [exit |-> "pending", tag |-> "none", operation |-> "none", cause |-> "none"]

Succeed(value) == [exit |-> "success", tag |-> "none", operation |-> "none", cause |-> value]

Fail(tag, operation, cause) ==
    [exit |-> "failure", tag |-> tag, operation |-> operation, cause |-> cause]

Die(cause) == [exit |-> "defect", tag |-> "defect", operation |-> "none", cause |-> cause]

\* Effect.try({ try, catch }) around a native call that throws: catch returns the
\* matched error, which fails the effect, or rethrows, which makes it a defect
tryCatch(matched, operation, thrown) ==
    IF matched = "defect" THEN Die(thrown) ELSE Fail(matched, operation, thrown)

\* resume of Effect.async where the value of the latest call would win
resumeRequestLast(settled, value) == value

\* resume of Effect.async: the first value settles the effect, later calls are ignored
resumeRequest(settled, value) == IF settled.exit = "pending" THEN value ELSE settled

\* the values request.onsuccess gives to resume, in order
onsuccessCalls == <<Succeed("result")>>

\* an onerror that signals the defect before the typed failure
onerrorCallsDieFirst(matched, operation, error) ==
    <<Die(error)>> \o
    (IF matched # "defect" THEN <<Fail(matched, operation, error)>> ELSE <<>>)

\* the values request.onerror of both helpers gives to resume, in order:
\* resume(Effect.fail(matched)) when the error matched, then resume(Effect.die(..))
\* in every case
onerrorCalls(matched, operation, error) ==
    (IF matched # "defect" THEN <<Fail(matched, operation, error)>> ELSE <<>>)
    \o <<Die(error)>>

\* the effect of Effect.async after these calls of resume, made one after the other
RECURSIVE settle(_, _)
settle(settled, calls) ==
    IF calls = <<>> THEN settled
    ELSE settle(resumeRequest(settled, Head(calls)), Tail(calls))

\* request.onerror of both helpers
onRequestError(matched, operation, error) ==
    settle(Pending, onerrorCalls(matched, operation, error))

\* useRawStoreRequest(objectRequest, operation), where objectRequest() throws
\* `thrown` ("none": it returns the request) and the request then reports `event`
useRawStoreRequest(operation, thrown, event) ==
    IF thrown # "none"
    THEN tryCatch(matchObjectStoreError(thrown, operation), operation, thrown)
    ELSE IF event = "success"
    THEN resumeRequest(Pending, Succeed("result"))
    ELSE onRequestError(matchObjectStoreError(event, operation), operation, event)

\* useRawIndexRequest(indexRequest, operation)
useRawIndexRequest(operation, thrown, event) ==
    IF thrown # "none"
    THEN tryCatch(matchStoreIndexError(thrown, operation), operation, thrown)
    ELSE IF event = "success"
    THEN resumeRequest(Pending, Succeed("result"))
    ELSE onRequestError(matchStoreIndexError(event, operation), operation, event)

\* makeIndexServiceEffect(rawStore, indexName): rawStore.index(indexName) inside
\* Effect.try, its catch matching with operation "index"
makeIndexServiceEffect(thrown) ==
    IF thrown # "none"
    THEN tryCatch(matchObjectStoreError(thrown, "index"), "index", thrown)
    ELSE Succeed("indexService")

\* rawStore.index(indexName) of the engine: InvalidStateError on a deleted store or
\* a finished transaction, NotFoundError when the store has no index of that name
nativeIndex(storeDeleted, indexExists) ==
    IF storeDeleted THEN "InvalidStateError"
    ELSE IF ~indexExists THEN "NotFoundError"
    ELSE "none"

\* the catch of the Effect.try around store.createIndex in addStoreIndex
catchAddStoreIndex(thrown) ==
    IF thrown \in CreateObjectStoreIndexExceptionType
    THEN Fail("IDBDatabaseObjectStoreCreationError", "createIndex", thrown)
    ELSE Die(thrown)

\* the catch of the Effect.try around db.createObjectStore in createObjectStore
catchCreateObjectStore(thrown) ==
    IF thrown \in CreateObjectStoreExceptionType
    THEN Fail("IDBDatabaseObjectStoreCreationError", "createObjectStore", thrown)
    ELSE Die(thrown)

\* the catch of the Effect.try around db.deleteObjectStore in deleteObjectStore:
\* it looks at no list
catchDeleteObjectStore(thrown) ==
    Fail("IDBDatabaseObjectStoreDeletionError", "deleteObjectStore", thrown)

\* what the error event of an open request may carry in request.error
OpenRequestErrors == DOMExceptionNames \cup {"NotReadableError"}

\* a catch that turns every exception of indexedDB.open into the typed error
catchFactoryOpenAll(thrown) == Fail("IDBDatabaseOpenError", "open", thrown)

\* the catch of the Effect.try around indexedDB.open(config.name, config.version):
\* the typed error for a TypeError, `throw new Error(...)` for anything else
catchFactoryOpen(thrown) ==
    IF thrown = "TypeError" THEN Fail("IDBDatabaseOpenError", "open", thrown)
    ELSE Die(thrown)

\* open(config) where no upgrade is needed: indexedDB.open throws `thrown` ("none": it
\* returns the request), and the request then fires success or an error event
factoryOpen(thrown, event) ==
    IF thrown # "none" THEN catchFactoryOpen(thrown)
    ELSE IF event = "success" THEN resumeRequest(Pending, Succeed("connection"))
    ELSE IF onError(event).kind = "fail"
    THEN resumeRequest(Pending, Fail("IDBDatabaseOpenError", "open", event))
    ELSE resumeRequest(Pending, Die(event))

NoProxyCall ==
    [service |-> "none", operation |-> "none", thrown |-> "none", event |-> "none",
     outcome |-> Pending]

\* no event was delivered: the call threw, or it is not a request of the proxies
NoRequestLog == [events |-> <<>>, resumes |-> <<>>]

\* the values the handlers of a request of the proxies give to resume for one event
handlerCalls(service, operation, event) ==
    IF event = "success" THEN onsuccessCalls
    ELSE IF service = "store"
    THEN onerrorCalls(matchObjectStoreError(event, operation), operation, event)
    ELSE onerrorCalls(matchStoreIndexError(event, operation), operation, event)

\* the log of a request that was issued and to which the engine delivered `event`
FirstEvent(service, operation, thrown, event) ==
    IF thrown # "none" THEN NoRequestLog
    ELSE [events |-> <<event>>, resumes |-> handlerCalls(service, operation, event)]

ProxyInit == proxyCall = NoProxyCall /\ requestLog = NoRequestLog

\* a request of the store proxy, the store having been resolved
StoreRequest(operation, thrown, event) ==
    /\ proxyCall' = [service |-> "store", operation |-> operation, thrown |-> thrown,
                     event |-> IF thrown = "none" THEN event ELSE "none",
                     outcome |-> useRawStoreRequest(operation, thrown, event)]
    /\ requestLog' = FirstEvent("store", operation, thrown, event)
    /\ UNCHANGED <<txnVars, openVars, schemaVars, connVars, fiberVars>>

\* a request of the index proxy
IndexRequest(operation, thrown, event) ==
    /\ proxyCall' = [service |-> "index", operation |-> operation, thrown |-> thrown,
                     event |-> IF thrown = "none" THEN event ELSE "none",
                     outcome |-> useRawIndexRequest(operation, thrown, event)]
    /\ requestLog' = FirstEvent("index", operation, thrown, event)
    /\ UNCHANGED <<txnVars, openVars, schemaVars, connVars, fiberVars>>

\* a schema change of the upgrade service whose native call throws
SchemaChange(operation, thrown) ==
    /\ proxyCall' = [service |-> "upgrade", operation |-> operation, thrown |-> thrown,
                     event |-> "none",
                     outcome |-> CASE operation = "createIndex" -> catchAddStoreIndex(thrown)
                                   [] operation = "createObjectStore" ->
                                          catchCreateObjectStore(thrown)
                                   [] operation = "deleteObjectStore" ->
                                          catchDeleteObjectStore(thrown)]
    /\ requestLog' = NoRequestLog
    /\ UNCHANGED <<txnVars, openVars, schemaVars, connVars, fiberVars>>

\* an open of the factory service
FactoryOpen(thrown, event) ==
    /\ proxyCall' = [service |-> "factory", operation |-> "open", thrown |-> thrown,
                     event |-> IF thrown = "none" THEN event ELSE "none",
                     outcome |-> factoryOpen(thrown, event)]
    /\ requestLog' = NoRequestLog
    /\ UNCHANGED <<txnVars, openVars, schemaVars, connVars, fiberVars>>

\* index(indexName) of the store proxy, the store having been resolved
StoreIndex(storeDeleted, indexExists) ==
    /\ LET thrown == nativeIndex(storeDeleted, indexExists)
       IN  proxyCall' = [service |-> "store", operation |-> "index", thrown |-> thrown,
                         event |-> "none", outcome |-> makeIndexServiceEffect(thrown)]
    /\ requestLog' = NoRequestLog
    /\ UNCHANGED <<txnVars, openVars, schemaVars, connVars, fiberVars>>

\* one more event reaches the handlers of the latest request, whose effect is
\* settled: its calls of resume come after those of the first event
RequestLaterEvent(event) ==
    /\ requestLog.events # <<>>
    /\ Len(requestLog.events) < MaxEvents
    /\ LET calls == handlerCalls(proxyCall.service, proxyCall.operation, event)
       IN  /\ proxyCall' = [proxyCall EXCEPT !.outcome = settle(@, calls)]
           /\ requestLog' = [events |-> Append(requestLog.events, event),
                             resumes |-> requestLog.resumes \o calls]
    /\ UNCHANGED <<txnVars, openVars, schemaVars, connVars, fiberVars>>

\* ------------------------------------------------------------------------
\* Connection lifecycle (IDBDatabaseService.make)
\* ------------------------------------------------------------------------
Scopes == 1..MaxScopes

\* a scope the database layer is built in: the state of the build and of the body,
\* how the scope ended, the version its open asked for, and whether acquireRelease
\* got a connection (and so registered its release)
NoScope == [state |-> "none", exit |-> "none", requested |-> 0, acquired |-> FALSE]

\* the native connection of the open issued in a scope: whether the engine holds it
\* open, the db.close() calls made on it, and whether a "versionchange" event was
\* fired at it
NoConnection ==
    [opened |-> FALSE, open |-> FALSE, closeCalls |-> 0, versionchange |-> FALSE]

ConnectionInit ==
    /\ dbScopes = [s \in Scopes |-> NoScope]
    /\ connections = [s \in Scopes |-> NoConnection]
    /\ engine = [version |-> 0, deletePending |-> FALSE]

OpenConnections == {c \in Scopes : connections[c].open}

\* the "versionchange" event the engine fires at every open connection when an
\* upgrade or a deletion is requested; the connection has no handler for it
fireVersionChange(conns) ==
    [c \in Scopes |-> IF conns[c].open THEN [conns[c] EXCEPT !.versionchange = TRUE]
                      ELSE conns[c]]

\* IDBDatabase.close()
dbClose(conn) == [conn EXCEPT !.open = FALSE, !.closeCalls = @ + 1]

\* a release that does nothing
releaseNothing(conn) == conn

\* the release of acquireRelease: (db) => Effect.sync(() => db.close()), run by the
\* scope when it closes
release(conn) == dbClose(conn)

\* finalizers that close every connection to the database, as one shared handle would
closeSharedHandle(conns, s) ==
    [c \in Scopes |-> IF conns[c].open THEN release(conns[c]) ELSE conns[c]]

\* Scope.close of scope s runs the finalizers of s: the release of the connection
\* that the open issued in s returned
closeScope(conns, s) == [conns EXCEPT ![s] = release(@)]

\* the engine's answer to indexedDB.open(name, version) at this moment: "blocked"
\* while a higher version is asked for and another connection is open,
\* "VersionError" for a version below the stored one, else "upgrade" or "success"
nativeOpen(version) ==
    IF engine.deletePending THEN "blocked"
    ELSE IF version < engine.version THEN "VersionError"
    ELSE IF version = engine.version THEN "success"
    ELSE IF OpenConnections # {} THEN "blocked"
    ELSE "upgrade"

\* dbFactory.open(config) under acquireRelease, from the answer of the engine on:
\* an error event fails the acquire; after an upgrade whose fiber failed the success
\* event still fires and the effect fails with the connection open; otherwise the
\* connection is acquired and the body of the scope runs
openOutcome(s, version, answer, upgradeFails) ==
    /\ answer # "blocked"
    /\ upgradeFails => answer = "upgrade"
    /\ IF answer = "VersionError"
       THEN /\ dbScopes' = [dbScopes EXCEPT ![s] =
                   [state |-> "ended", exit |-> "failure", requested |-> version,
                    acquired |-> FALSE]]
            /\ UNCHANGED <<connections, engine>>
       ELSE /\ connections' = [connections EXCEPT ![s] =
                   [NoConnection EXCEPT !.opened = TRUE, !.open = TRUE]]
            /\ engine' = [engine EXCEPT !.version = version]
            /\ dbScopes' = [dbScopes EXCEPT ![s] =
                   IF upgradeFails
                   THEN [state |-> "ended", exit |-> "failure", requested |-> version,
                         acquired |-> FALSE]
                   ELSE [state |-> "running", exit |-> "none", requested |-> version,
                         acquired |-> TRUE]]

\* the layer is built in scope s: Effect.acquireRelease(dbFactory.open(config), ..)
DatabaseLayerBuild(s, version, upgradeFails) ==
    /\ dbScopes[s].state = "none"
    /\ \A t \in Scopes : t < s => dbScopes[t].state # "none"
    /\ IF nativeOpen(version) = "blocked"
       THEN /\ ~upgradeFails
            /\ dbScopes' = [dbScopes EXCEPT ![s] =
                   [state |-> "blocked", exit |-> "none", requested |-> version,
                    acquired |-> FALSE]]
            /\ connections' = fireVersionChange(connections)
            /\ UNCHANGED engine
       ELSE openOutcome(s, version, nativeOpen(version), upgradeFails)
    /\ UNCHANGED <<txnVars, openVars, schemaVars, proxyVars, fiberVars>>

\* the engine goes on with an open request it had to hold back
OpenProceeds(s, upgradeFails) ==
    /\ dbScopes[s].state = "blocked"
    /\ openOutcome(s, dbScopes[s].requested, nativeOpen(dbScopes[s].requested), upgradeFails)
    /\ UNCHANGED <<txnVars, openVars, schemaVars, proxyVars, fiberVars>>

\* the scope the layer was built in closes, its body having succeeded, failed or been
\* interrupted: the finalizer registered by acquireRelease runs
ScopeClose(s, exit) ==
    /\ dbScopes[s].state = "running"
    /\ dbScopes' = [dbScopes EXCEPT ![s].state = "ended", ![s].exit = exit]
    /\ connections' = IF dbScopes[s].acquired THEN closeScope(connections, s)
                       ELSE connections
    /\ UNCHANGED engine
    /\ UNCHANGED <<txnVars, openVars, schemaVars, proxyVars, fiberVars>>

\* indexedDB.deleteDatabase(name) called elsewhere (another tab, another program)
DeleteRequested ==
    /\ ~engine.deletePending
    /\ engine.version > 0
    /\ IF OpenConnections = {}
       THEN /\ engine' = [engine EXCEPT !.version = 0]
            /\ UNCHANGED connections
       ELSE /\ engine' = [engine EXCEPT !.deletePending = TRUE]
            /\ connections' = fireVersionChange(connections)
    /\ UNCHANGED dbScopes
    /\ UNCHANGED <<txnVars, openVars, schemaVars, proxyVars, fiberVars>>

\* the engine deletes the database once no connection to it is open
DeleteProceeds ==
    /\ engine.deletePending
    /\ OpenConnections = {}
    /\ engine' = [version |-> 0, deletePending |-> FALSE]
    /\ UNCHANGED <<dbScopes, connections>>
    /\ UNCHANGED <<txnVars, openVars, schemaVars, proxyVars, fiberVars>>

\* ------------------------------------------------------------------------
\* Store operations of one scope run in several fibers
\* (Effect.all(..., { concurrency: "unbounded" }) inside the body)
\* ------------------------------------------------------------------------
MaxFibers == 2

Fibers == 1..MaxFibers

IdleFiber ==
    [at |-> "idle", registry |-> 0, storeName |-> "none", seen |-> 0, nativeTx |-> 0,
     resolved |-> "none"]

FiberInit == storeFibers = [f \in Fibers |-> IdleFiber]

\* useObjectStore, up to `let nativeTx = yield* Ref.get(liveTransaction)`: the fiber
\* holds the value it read.  Nothing in useObjectStore keeps the runtime from running
\* another fiber between this read and the steps that follow it.
useObjectStoreGet(f, r, storeName) ==
    /\ Running(r)
    /\ storeName \in registry[r].proxies
    /\ storeFibers[f].at # "read"
    /\ storeFibers' = [storeFibers EXCEPT ![f] =
           [at |-> "read", registry |-> r, storeName |-> storeName,
            seen |-> registry[r].liveTransaction, nativeTx |-> 0, resolved |-> "none"]]
    /\ UNCHANGED txnVars
    /\ UNCHANGED <<openVars, schemaVars, proxyVars, connVars>>

\* useObjectStore, from `if (!nativeTx)` on: makeTransaction() when the value read was
\* null - db.transaction, history.push, Ref.set(liveTransaction) - then
\* transaction.objectStore(storeName)
useObjectStoreResolve(f) ==
    /\ storeFibers[f].at = "read"
    /\ Running(storeFibers[f].registry)
    /\ LET op == storeFibers[f]
           r == op.registry
           reg == registry[r]
           mustOpen == op.seen = 0
           opened == getRawTransactionFromRawDatabaseEffect(storeNames(reg))
       IN  IF mustOpen /\ opened # "ok"
           THEN /\ storeFibers' = [storeFibers EXCEPT ![f] =
                       [op EXCEPT !.at = "done", !.resolved = opened]]
                /\ UNCHANGED <<registry, transactions, transactionHistory, opTransactions>>
           ELSE /\ mustOpen => Len(transactions) < MaxTransactions
                /\ LET t == IF mustOpen THEN Len(transactions) + 1 ELSE op.seen
                       txns1 == IF mustOpen
                                THEN Append(transactions,
                                            NativeTransaction(r, storeNames(reg), reg.permissionRef,
                                                              Len(addStoreLog[r])))
                                ELSE transactions
                   IN  /\ transactions' = txns1
                       /\ transactionHistory' =
                             IF mustOpen
                             THEN Append(transactionHistory,
                                         HistoryEntry(storeNames(reg), reg.permissionRef))
                             ELSE transactionHistory
                       /\ registry' = [registry EXCEPT ![r] =
                             [reg EXCEPT !.liveTransaction = IF mustOpen THEN t ELSE @,
                                         !.operated = TRUE]]
                       /\ opTransactions' = [opTransactions EXCEPT ![r] = @ \cup {t}]
                       /\ storeFibers' = [storeFibers EXCEPT ![f] =
                             [op EXCEPT !.at = "done", !.nativeTx = t,
                                        !.resolved =
                                            getRawObjectStoreFromRawTransactionEffect(
                                                txns1[t], op.storeName)]]
    /\ UNCHANGED <<provideCount, bodyState, memoMap, registryCount, persisted, callCount,
                   builtLayers, addStoreLog, confirmedWrites>>
    /\ UNCHANGED <<openVars, schemaVars, proxyVars, connVars>>

\* ------------------------------------------------------------------------
\* Opening the native transaction, with everything the engine may throw
\* ------------------------------------------------------------------------
\* Effect.provide(body, IDBTransactionService.ReadWrite / ReadOnly): the transaction
\* service is provided on its own, its registry starts with no store registered
ProvideTransactionService(mode) ==
    /\ provideCount < MaxProvides
    /\ registryCount < MaxRegistries
    /\ LET p == provideCount + 1
           r == registryCount + 1
       IN  /\ provideCount' = p
           /\ registryCount' = r
           /\ bodyState' = [bodyState EXCEPT ![p] = "running"]
           /\ registry' = [registry EXCEPT ![r] =
                  setPermissions(registryServiceEffect(p, FALSE), mode)]
           /\ memoMap' = [NewMemoMap EXCEPT ![mode] = r]
    /\ UNCHANGED <<transactions, transactionHistory, persisted, callCount, builtLayers,
                   addStoreLog, opTransactions, confirmedWrites>>
    /\ UNCHANGED <<openVars, schemaVars, proxyVars, connVars, fiberVars>>

\* registry.makeTransaction(), as transactionService.use(cb) calls it: the names and
\* the mode are read from the refs, db.transaction(storeNames, mode) throws `thrown`
\* or, with "none", what the engine throws for these names; only when it returned
\* are the history entry pushed and the transaction memoized.
makeTransaction(r, thrown) ==
    /\ Running(r)
    /\ LET reg == registry[r]
           names == storeNames(reg)
           mode == reg.permissionRef
           raised == IF thrown = "none" THEN dbTransaction(names) ELSE thrown
           opened == IF raised = "ok" THEN "ok" ELSE catchTransactionOpen(raised)
           call == [call |-> callCount + 1, store |-> "none", missing |-> "none"]
                       @@ TransactionError(opened, names, mode)
       IN  IF opened # "ok"
           THEN /\ registry' = [registry EXCEPT ![r] =
                       [reg EXCEPT !.usedUse = TRUE, !.lastError = opened,
                                   !.lastThrown = raised, !.lastCall = call]]
                /\ UNCHANGED <<transactions, transactionHistory>>
           ELSE /\ Len(transactions) < MaxTransactions
                /\ transactions' = Append(transactions,
                       NativeTransaction(r, names, mode, Len(addStoreLog[r])))
                /\ transactionHistory' = Append(transactionHistory, HistoryEntry(names, mode))
                /\ registry' = [registry EXCEPT ![r] =
                       [reg EXCEPT !.liveTransaction = Len(transactions) + 1,
                                   !.usedUse = TRUE, !.lastError = "none",
                                   !.lastThrown = raised, !.lastCall = call]]
    /\ callCount' = callCount + 1
    /\ UNCHANGED <<provideCount, bodyState, memoMap, registryCount, persisted, builtLayers,
                   addStoreLog, opTransactions, confirmedWrites>>
    /\ UNCHANGED <<openVars, schemaVars, proxyVars, connVars, fiberVars>>

\* ------------------------------------------------------------------------
\* Specifications
\* ------------------------------------------------------------------------
\* one scope: a single provide call, every service call of its body
TxnNext ==
    \/ provideCount = 0 /\ \E layers \in ProvidedLayers : Provide(layers)
    \/ \E p \in Provides, res \in {"succeeded", "failed"} : EndBody(p, res)
    \/ callCount < MaxCalls /\ \E r \in Registries, n \in StoreNames : objectStore(r, n)
    \/ callCount < MaxCalls
          /\ \E r \in Registries, n \in StoreNames, o \in ServiceOperations, res \in RequestResults :
                StoreOperation(r, n, o, res)
    \/ callCount < MaxCalls
          /\ \E r \in Registries, ns \in UseStoreNames, m \in UseModes : use(r, ns, m)
    \/ \E t \in 1..MaxTransactions : AutoCommit(t)

Init == TxnInit /\ OpenInit /\ SchemaInit /\ ProxyInit /\ ConnectionInit /\ FiberInit

Spec == Init /\ [][TxnNext]_vars

\* several scopes: provide calls back to back or overlapping, store operations only
LayersNext ==
    \/ \E layers \in ProvidedLayers : Provide(layers)
    \/ \E p \in Provides : EndBody(p, "succeeded")
    \/ callCount < MaxCalls
          /\ \E r \in Registries, n \in StoreNames, res \in RequestResults :
                StoreOperation(r, n, "add", res)
    \/ \E t \in 1..MaxTransactions : AutoCommit(t)

SpecLayers == Init /\ [][LayersNext]_vars

\* one scope given a single store layer, whose body builds further proxies while it
\* runs: reads and writes on the stores, proxies built before and after them
LateProxyNext ==
    \/ provideCount = 0 /\ \E layers \in ProvidedLayers : Len(layers) = 1 /\ Provide(layers)
    \/ \E p \in Provides : EndBody(p, "succeeded")
    \/ callCount < MaxLateCalls /\ \E r \in Registries, n \in StoreNames : objectStore(r, n)
    \/ callCount < MaxLateCalls
          /\ \E r \in Registries, n \in StoreNames, o \in {"get", "put"}, res \in RequestResults :
                StoreOperation(r, n, o, res)
    \/ \E t \in 1..MaxTransactions : AutoCommit(t)

SpecLateProxy == Init /\ [][LateProxyNext]_vars

\* read-only scopes, one store layer each, whose bodies overlap and read
ReadersNext ==
    \/ \E layers \in ProvidedLayers :
          Len(layers) = 1 /\ layers[1].mode = "readonly" /\ Provide(layers)
    \/ \E p \in Provides : EndBody(p, "succeeded")
    \/ callCount < MaxCalls
          /\ \E r \in Registries, n \in StoreNames, o \in {"get", "getAll"}, res \in RequestResults :
                StoreOperation(r, n, o, res)
    \/ \E t \in 1..MaxTransactions : AutoCommit(t)

SpecReaders == Init /\ [][ReadersNext]_vars

\* one scope whose body runs its store operations in several fibers
FibersNext ==
    \/ provideCount = 0 /\ \E layers \in ProvidedLayers : Provide(layers)
    \/ \E p \in Provides : EndBody(p, "succeeded")
    \/ \E f \in Fibers, r \in Registries, n \in StoreNames : useObjectStoreGet(f, r, n)
    \/ \E f \in Fibers : useObjectStoreResolve(f)
    \/ \E t \in 1..MaxTransactions : AutoCommit(t)

SpecFibers == Init /\ [][FibersNext]_vars

\* one scope whose body opens transactions through use(cb), against an engine that
\* may throw anything
MakeTransactionNext ==
    \/ provideCount = 0 /\ \E layers \in ProvidedLayers : Len(layers) = 1 /\ Provide(layers)
    \/ provideCount = 0 /\ \E m \in Modes : ProvideTransactionService(m)
    \/ \E p \in Provides : EndBody(p, "succeeded")
    \/ callCount < MaxCalls /\ \E r \in Registries, n \in StoreNames : objectStore(r, n)
    \/ callCount < MaxCalls
          /\ \E r \in Registries, thrown \in ThrownErrors \cup {"none"} : makeTransaction(r, thrown)
    \/ \E t \in 1..MaxTransactions : AutoCommit(t)

SpecMakeTransaction == Init /\ [][MakeTransactionNext]_vars

\* the connection manager: opens of one database, one after the other
OpenNext ==
    \/ \E cfg \in Configs : Open(cfg)
    \/ OnUpgradeNeeded
    \/ AutoStep
    \/ \E call \in UpgradeCalls : ExplicitCall(call)
    \/ \E n \in UpgradeStoreNames : ExplicitRequest(n)
    \/ ExplicitSleep
    \/ \E exit \in {"success", "failure"} : ExplicitEnd(exit)
    \/ RequestSuccess
    \/ \E caught \in BOOLEAN : RequestError(caught)
    \/ TimerFires
    \/ CommitUpgrade
    \/ OnSuccess
    \/ OnError

SpecOpen == Init /\ [][OpenNext]_vars

\* the steps the engine and the migration fiber take on their own: the engine
\* delivers the events of the open request and of the requests of the upgrade
\* transaction and commits it, timers fire, and a step that runs comes to its end
OpenProgress ==
    \/ OnUpgradeNeeded
    \/ AutoStep
    \/ \E exit \in {"success", "failure"} : ExplicitEnd(exit)
    \/ RequestSuccess
    \/ \E caught \in BOOLEAN : RequestError(caught)
    \/ TimerFires
    \/ CommitUpgrade
    \/ OnSuccess
    \/ OnError

\* opens in which the engine goes on delivering and every migration step terminates
SpecOpenFair == SpecOpen /\ WF_vars(OpenProgress)

\* opens whose migration fiber may be interrupted
InterruptNext ==
    \/ OpenNext
    \/ FiberInterrupt

SpecInterrupt == Init /\ [][InterruptNext]_vars

\* successive versions of a schema reconciled against one database
SchemaNext == \E stores \in Schemas : Reconcile(stores, DefaultParams)

SpecSchema == Init /\ [][SchemaNext]_vars

\* versions of a schema that declare one store or both, with the parameters they
\* declare, reconciled against a database the application stores records in
FrameNext ==
    \/ \E stores \in FrameSchemas, params \in StoreParamsChoices : Reconcile(stores, params)
    \/ \E storeName \in UpgradeStoreNames, key \in RecordKeys : StorePut(storeName, key)

SpecFrame == Init /\ [][FrameNext]_vars

\* requests of the two proxies, each with what the engine throws or reports
ProxyNext ==
    \/ \E o \in ServiceOperations, thrown \in ThrownErrors \cup {"none"}, event \in RequestEvents :
          StoreRequest(o, thrown, event)
    \/ \E o \in IndexServiceOperations, thrown \in ThrownErrors \cup {"none"},
          event \in RequestEvents : IndexRequest(o, thrown, event)
    \/ \E storeDeleted \in BOOLEAN, indexExists \in BOOLEAN : StoreIndex(storeDeleted, indexExists)
    \/ \E o \in {"createObjectStore", "createIndex", "deleteObjectStore"}, thrown \in ThrownErrors :
          SchemaChange(o, thrown)
    \/ \E thrown \in ThrownErrors \cup {"none"}, event \in {"success"} \cup OpenRequestErrors :
          FactoryOpen(thrown, event)

SpecProxy == Init /\ [][ProxyNext]_vars

\* requests of the two proxies that the engine accepted, and the events their
\* handlers receive
RequestNext ==
    \/ \E o \in ServiceOperations, event \in RequestEvents : StoreRequest(o, "none", event)
    \/ \E o \in IndexServiceOperations, event \in RequestEvents : IndexRequest(o, "none", event)
    \/ \E event \in RequestEvents : RequestLaterEvent(event)

SpecRequest == Init /\ [][RequestNext]_vars

\* database layers built in several scopes on one database name, and a deletion
\* of that database asked for elsewhere
ConnectionNext ==
    \/ \E s \in Scopes, v \in 1..MaxVersion, upgradeFails \in BOOLEAN :
          DatabaseLayerBuild(s, v, upgradeFails)
    \/ \E s \in Scopes, upgradeFails \in BOOLEAN : OpenProceeds(s, upgradeFails)
    \/ \E s \in Scopes, exit \in {"success", "failure", "interrupt"} : ScopeClose(s, exit)
    \/ DeleteRequested
    \/ DeleteProceeds

SpecConnection == Init /\ [][ConnectionNext]_vars

\* ------------------------------------------------------------------------
\* Properties of one transaction scope
\* ------------------------------------------------------------------------
TransactionIds == 1..Len(transactions)

\* the native transactions opened by registry r
OpenedBy(r) == {t \in TransactionIds : transactions[t].registry = r}

Finished(t) == transactions[t].state \in {"committed", "aborted"}

\* C1: in a scope that only performs object-store proxy operations on stores of the
\* connected database, at most one native transaction is ever opened; as soon as an
\* operation has been performed exactly one is open(ed), and every operation resolved
\* its store from that one.  (No transaction at all is opened only when a registered
\* name is not a store of the database.)
C1_TransactionCount ==
    \A r \in Registries :
        (registry[r].built /\ ~registry[r].usedUse) =>
            /\ Cardinality(OpenedBy(r)) <= 1
            /\ opTransactions[r] \subseteq OpenedBy(r)
            /\ registry[r].operated =>
                  \/ /\ Cardinality(OpenedBy(r)) = 1
                     /\ OpenedBy(r) = {registry[r].liveTransaction}
                     /\ opTransactions[r] = OpenedBy(r)
                  \/ /\ OpenedBy(r) = {}
                     /\ Range(registry[r].storeNamesRef) \ objectStoreNames # {}

\* two operations on two registered stores, the transaction having finished in between
C1_Witness ==
    \E r \in Registries :
        /\ ~registry[r].usedUse
        /\ registry[r].proxies = {"contacts", "notes"}
        /\ Len(addStoreLog[r]) = 2
        /\ callCount = 2
        /\ Cardinality(opTransactions[r]) = 1
        /\ \E t \in OpenedBy(r) : Finished(t)

\* C2: every native transaction is opened over the names registered in its scope up
\* to that moment - each once, in order of first registration, nothing else - and
\* with the permission the scope holds at that moment; the history entry pushed for
\* it records the same names and mode.
C2_StoresAtOpen ==
    \A t \in TransactionIds :
        LET txn == transactions[t]
        IN  /\ txn.storeNames =
                  FirstOccurrences(SubSeq(addStoreLog[txn.registry], 1, txn.addCallsAtOpen))
            /\ Len(transactionHistory) = Len(transactions)
            /\ transactionHistory[t] = [mode |-> txn.mode, storeNames |-> txn.storeNames]

C2_ModeAtOpen ==
    Len(transactions') = Len(transactions) + 1 =>
        LET txn == transactions'[Len(transactions')]
        IN  txn.mode = registry'[txn.registry].permissionRef

C2_TransactionCoversRegisteredStores == [](C2_StoresAtOpen) /\ [][C2_ModeAtOpen]_vars

C2_Witness ==
    \E t \in TransactionIds :
        /\ transactions[t].storeNames = <<"notes", "contacts">>
        /\ transactions[t].mode = "readwrite"
        /\ Len(addStoreLog[transactions[t].registry]) > 2
        /\ transactionHistory[t].storeNames = <<"notes", "contacts">>

\* C4: at most one native transaction is ever opened in a scope, whatever
\* transaction-service calls (proxy operations and use) are made in it.
C4_AtMostOneTransaction ==
    \A r \in Registries : Cardinality(OpenedBy(r)) <= 1

\* C5: once a scope has ended and its transactions have finished, every write of a
\* body that succeeded is persisted and no write of a body that failed is.
C5_AllOrNothing ==
    \A r \in Registries :
        (/\ registry[r].built
         /\ bodyState[registry[r].provide] \in {"succeeded", "failed"}
         /\ \A t \in OpenedBy(r) : Finished(t)) =>
            /\ bodyState[registry[r].provide] = "succeeded" => confirmedWrites[r] \subseteq persisted
            /\ bodyState[registry[r].provide] = "failed" => confirmedWrites[r] \cap persisted = {}

\* ------------------------------------------------------------------------
\* Properties of independent scopes
\* ------------------------------------------------------------------------
\* C3: store layers built by different provide calls, or by a Fresh getter, never
\* share a registry, so their scopes open distinct native transactions; and a
\* transaction lists only stores registered by layers of the scope that opened it.
C3_NoCrossScopeReuse ==
    /\ \A i, j \in 1..Len(builtLayers) :
          (i # j /\ (builtLayers[i].provide # builtLayers[j].provide
                      \/ builtLayers[i].fresh \/ builtLayers[j].fresh))
            => builtLayers[i].registry # builtLayers[j].registry
    /\ \A t \in TransactionIds :
          \A n \in Range(transactions[t].storeNames) :
             \E i \in 1..Len(builtLayers) :
                /\ builtLayers[i].registry = transactions[t].registry
                /\ builtLayers[i].storeName = n
                /\ builtLayers[i].provide = registry[transactions[t].registry].provide
    /\ \A r1, r2 \in Registries : r1 # r2 => opTransactions[r1] \cap opTransactions[r2] = {}

\* two back-to-back scopes from the same (cached) WithReadWrite layer over "contacts",
\* each with its own transaction
C3_Witness ==
    /\ Len(builtLayers) = 2
    /\ \A i \in 1..2 : builtLayers[i] = [provide |-> i, storeName |-> "contacts",
                                         mode |-> "readwrite", fresh |-> FALSE, registry |-> i]
    /\ bodyState[1] = "succeeded"
    /\ Len(transactions) = 2
    /\ transactions[1].storeNames = transactions[2].storeNames
    /\ opTransactions[1] = {1} /\ opTransactions[2] = {2}

\* two Fresh layers merged into one provide call, each with its own transaction
C3_WitnessFresh ==
    /\ Len(builtLayers) = 2
    /\ builtLayers[1].provide = 1 /\ builtLayers[2].provide = 1
    /\ builtLayers[1].fresh /\ builtLayers[2].fresh
    /\ opTransactions[1] = {1} /\ opTransactions[2] = {2}

\* ------------------------------------------------------------------------
\* Properties of the migration engine
\* ------------------------------------------------------------------------
\* the versions an upgrade from request.oldVersion to request.newVersion goes through
UpgradeRange == (request.oldVersion + 1)..request.newVersion

UpgradeTriggered == upgradeTxn.state # "none"

LoggedVersions == {migrationLog[i].version : i \in 1..Len(migrationLog)}

\* what the configuration declares for version v
DeclaredStep(v) ==
    IF config.onUpgradeNeeded.defined /\ v \in config.onUpgradeNeeded.versions THEN "explicit"
    ELSE IF config.autoObjectStores.defined /\ config.autoObjectStores.stores # <<>> THEN "auto"
    ELSE "none"

\* C6: the migration steps an open starts are steps for versions oldVersion+1 .. newVersion
\* only, they start in strictly ascending version order (so each at most once) without
\* skipping a version that has a step, and when the upgrade has succeeded every version
\* of the range that has a step has run
C6_MigrationOrder ==
    /\ \A i \in 1..Len(migrationLog) : migrationLog[i].version \in UpgradeRange
    /\ \A i, j \in 1..Len(migrationLog) :
          i < j => migrationLog[i].version < migrationLog[j].version
    /\ \A i \in 1..Len(migrationLog) : \A u \in UpgradeRange :
          (u < migrationLog[i].version /\ DeclaredStep(u) # "none") => u \in LoggedVersions
    /\ upgradeFiber.exit = "success" =>
          LoggedVersions = {v \in UpgradeRange : DeclaredStep(v) # "none"}

\* an upgrade from version 1 to version 3 with explicit steps for 1 and 3 and a schema has
\* run the auto step for 2, then the explicit step for 3, and nothing for 1
C6_Witness ==
    /\ request.oldVersion = 1
    /\ request.newVersion = 3
    /\ config.onUpgradeNeeded.defined
    /\ config.onUpgradeNeeded.versions = {1, 3}
    /\ upgradeFiber.exit = "success"
    /\ migrationLog = <<[version |-> 2, kind |-> "auto"], [version |-> 3, kind |-> "explicit"]>>

\* every declared store exists with every declared index
DeclaredStructurePresent(db, stores) ==
    \A s \in 1..Len(stores) :
        /\ stores[s].name \in db.stores
        /\ \A k \in 1..Len(stores[s].indexes) :
              LET declared == stores[s].indexes[k]
              IN  \E x \in db.indexes :
                     /\ x.store = stores[s].name
                     /\ x.name = declared.name
                     /\ x.keyPath = declared.keyPath
                     /\ x.unique = (declared.options.unique = "true")
                     /\ x.multiEntry = (declared.options.multiEntry = "true")

\* C7: for each version of the range the step that runs is the explicit step if the plan
\* has one (and then no auto-reconciliation besides it), else auto-reconciliation if and
\* only if a non-empty schema is declared, else nothing; and a new database opened with
\* a declared schema and no migration plan has every declared store with every declared
\* index once open has yielded the handle
C7_StepSelection ==
    /\ \A i \in 1..Len(migrationLog) :
          migrationLog[i].kind = DeclaredStep(migrationLog[i].version)
    /\ \A i, j \in 1..Len(migrationLog) :
          migrationLog[i].version = migrationLog[j].version => i = j
    /\ upgradeFiber.exit = "success" =>
          \A v \in UpgradeRange :
              (\E i \in 1..Len(migrationLog) : migrationLog[i] = [version |-> v, kind |-> "auto"])
              <=> DeclaredStep(v) = "auto"
    /\ (/\ OpenResult.tag = "handle"
        /\ UpgradeTriggered
        /\ request.oldVersion = 0
        /\ ~config.onUpgradeNeeded.defined
        /\ config.autoObjectStores.stores # <<>>)
       => DeclaredStructurePresent(database, config.autoObjectStores.stores)

\* a new database has been opened with two declared stores and no migration plan
C7_Witness ==
    /\ OpenResult.tag = "handle"
    /\ request.oldVersion = 0
    /\ ~config.onUpgradeNeeded.defined
    /\ config.autoObjectStores.stores = <<ContactsByName, Notes>>
    /\ migrationLog # <<>>
    /\ database.stores = {"contacts", "notes"}

\* C8: once a migration step has failed, open has failed with the IDBDatabaseOpenError of
\* the upgrade, whose cause is the failure of the step, whichever of the success event,
\* the error event and the completion of the fiber came first
C8_UpgradeFailureFailsOpen ==
    upgradeFiber.exit = "failure" =>
        OpenResult = [tag |-> "IDBDatabaseOpenError", message |-> "upgrade",
                      cause |-> upgradeFiber.cause]

\* C9: after an upgrade that failed in one of its steps, a later open that succeeds
\* without upgrading finds the structure the database had when the failing step
\* started (or, the engine having rolled the whole upgrade back, before the upgrade)
C9_RollbackOnUpgradeFailure ==
    (/\ failedUpgrade.happened
     /\ openCount > 1
     /\ ~UpgradeTriggered
     /\ OpenResult.tag = "handle")
    => Structure(database) \in {failedUpgrade.atStep, failedUpgrade.before}

\* C10: when an upgrade was triggered and open has yielded the handle, the fiber has
\* completed with success and every version of the range that has a step has run: no
\* step is running or waiting to start
C10_HandleAfterMigrations ==
    (OpenResult.tag = "handle" /\ UpgradeTriggered) =>
        /\ upgradeFiber.state \in {"undefined", "done"}
        /\ upgradeFiber.exit # "failure"
        /\ Len(migrationLog) = Len(orderedMigrations)
        /\ \A v \in UpgradeRange : DeclaredStep(v) # "none" => v \in LoggedVersions

\* the success event came while a step was still waiting, and the handle was yielded
\* when the fiber had completed
C10_Witness ==
    /\ OpenResult.tag = "handle"
    /\ upgradeFiber.pendingSuccess
    /\ upgradeFiber.exit = "success"
    /\ migrationLog # <<>>

\* ------------------------------------------------------------------------
\* Properties of auto-reconciliation
\* ------------------------------------------------------------------------
IndexNamesOf(db, storeName) == {x.name : x \in {y \in db.indexes : y.store = storeName}}

DeclaredIndexNames(storeConfig) ==
    {storeConfig.indexes[k].name : k \in 1..Len(storeConfig.indexes)}

\* C11: after a run of autoGenerateObjectStores that completed successfully every declared
\* store exists, its index names are exactly the declared ones and every index has the
\* declared key path, unique and multiEntry (an omitted option counting as false)
C11_DeclaredSchemaWins ==
    (schemaRun.count > 0 /\ schemaRun.ok) =>
        /\ DeclaredStructurePresent(schemaDb, schemaRun.declared)
        /\ \A s \in 1..Len(schemaRun.declared) :
              IndexNamesOf(schemaDb, schemaRun.declared[s].name)
                  = DeclaredIndexNames(schemaRun.declared[s])

\* C12: a successful run against the schema of the successful run before it makes no
\* createObjectStore, deleteIndex or createIndex call
C12_ReconcileIdempotent ==
    (schemaRun.repeated /\ schemaRun.ok) => schemaDb.calls = <<>>

KeyPathChoices ==
    {KeyPath(FALSE, <<k>>) : k \in {"a", "b"}}
    \cup {KeyPath(TRUE, ks) : ks \in {<<>>, <<"a">>, <<"b">>, <<"a", "b">>, <<"b", "a">>,
                                      <<"a", "a">>, <<"a", "b", "a">>}}

\* C13: over the key paths of the indexes of the database and a set of further ones,
\* keyPathsMatch holds of two arrays iff they have the same length and equal elements
\* position by position, never of an array and a string, and of two strings iff they are
\* equal; it is symmetric and reflexive
C13_KeyPathEquality ==
    \A a, b \in KeyPathChoices \cup {x.keyPath : x \in schemaDb.indexes} :
          /\ keyPathsMatch(a, b) <=>
                IF a.isArray /\ b.isArray
                THEN /\ Len(a.keys) = Len(b.keys)
                     /\ \A i \in 1..Len(a.keys) : a.keys[i] = b.keys[i]
                ELSE IF ~a.isArray /\ ~b.isArray THEN a.keys[1] = b.keys[1]
                ELSE FALSE
          /\ keyPathsMatch(a, b) <=> keyPathsMatch(b, a)
          /\ keyPathsMatch(a, a)

\* an index with key path ["email"] met the declaration of the same name with key path
\* "email" and no options, and was deleted and created again
C13_Witness ==
    /\ schemaRun.ok
    /\ \E x \in schemaRun.before.indexes :
          /\ x.store = "contacts" /\ x.name = "email"
          /\ x.keyPath = KeyPath(TRUE, <<"email">>)
    /\ schemaRun.declared[1].indexes =
          <<IndexParams("email", KeyPath(FALSE, <<"email">>), NoOptions)>>
    /\ schemaDb.calls = <<NativeCall("deleteIndex", "contacts", "email"),
                          NativeCall("createIndex", "contacts", "email")>>

\* ------------------------------------------------------------------------
\* Properties of store access during an upgrade
\* ------------------------------------------------------------------------
\* C14: while the versionchange transaction is active no step - in particular no store
\* operation made through upgradeService.objectStore(name) - opens a native transaction
\* or adds an entry to the transaction history
C14_UpgradeUsesUpgradeTransaction ==
    [][upgradeTxn.state = "active" =>
          (transactions' = transactions /\ transactionHistory' = transactionHistory)]_vars

\* a step has issued a request through upgradeService.objectStore(name): it is pending
\* on the versionchange transaction, and there is no other transaction
C14_Witness ==
    /\ upgradeTxn.state = "active"
    /\ upgradeTxn.requestPending
    /\ upgradeFiber.state = "awaitingRequest"
    /\ transactions = <<>>
    /\ transactionHistory = <<>>

\* ------------------------------------------------------------------------
\* Properties of the error classification
\* ------------------------------------------------------------------------
\* the exception names each store operation is declared to fail with; getAll also
\* takes the TypeError of a bad count
RecognizedStoreErrors(operation) ==
    CASE operation = "add" -> ObjectStoreAddExceptionType
      [] operation = "put" -> ObjectStorePutSyncExceptionType \cup ObjectStorePutAsyncExceptionType
      [] operation = "get" -> ObjectStoreGetExceptionType
      [] operation = "getAll" -> ObjectStoreGetAllExceptionType \cup {"TypeError"}
      [] operation = "delete" -> ObjectStoreDeleteExceptionType
      [] operation = "clear" -> ObjectStoreClearExceptionType
      [] operation = "index" -> ObjectStoreIndexExceptionType

\* what the engine signalled to the latest proxy request: the exception thrown at
\* issuance, else the event of the request
Signalled == IF proxyCall.thrown # "none" THEN proxyCall.thrown ELSE proxyCall.event

\* C15: a request of a store operation (add, put, get, getAll, delete, clear) that
\* the engine fails, at issuance or on the request, fails with an
\* IDBObjectStoreOperationError of that operation and that cause exactly when the
\* exception is one the operation recognizes, and is a defect otherwise; a request
\* the engine completes succeeds, and none stays without an outcome.
C15_StoreFailureClassification ==
    (proxyCall.service = "store" /\ proxyCall.operation \in ServiceOperations) =>
        LET out == proxyCall.outcome
            typed == /\ out.exit = "failure"
                     /\ out.tag = "IDBObjectStoreOperationError"
                     /\ out.operation = proxyCall.operation
                     /\ out.cause = Signalled
        IN  IF Signalled = "success"
            THEN out.exit = "success"
            ELSE /\ out.exit \in {"failure", "defect"}
                 /\ typed <=> Signalled \in RecognizedStoreErrors(proxyCall.operation)
                 /\ out.exit = "defect" <=> Signalled \notin RecognizedStoreErrors(proxyCall.operation)

\* a put whose request reports QuotaExceededError has failed with the typed error
C15_Witness ==
    /\ proxyCall.service = "store"
    /\ proxyCall.operation = "put"
    /\ proxyCall.thrown = "none"
    /\ proxyCall.event = "QuotaExceededError"
    /\ proxyCall.outcome.exit = "failure"
    /\ proxyCall.outcome.cause = "QuotaExceededError"

\* C16: index(name) of a store proxy, where the engine throws NotFoundError (the
\* store has no index of that name) or InvalidStateError (the store was deleted),
\* fails with a typed IDBObjectStoreOperationError of operation "index", which the
\* caller can catch, and is not a defect.
C16_IndexFailureIsTyped ==
    (proxyCall.service = "store" /\ proxyCall.operation = "index"
     /\ proxyCall.thrown \in ObjectStoreIndexExceptionType) =>
        /\ proxyCall.outcome.exit = "failure"
        /\ proxyCall.outcome.tag = "IDBObjectStoreOperationError"
        /\ proxyCall.outcome.operation = "index"

\* the exception names each index operation is declared to fail with; getAll and
\* getAllKeys also take the TypeError of a bad count
RecognizedIndexErrors(operation) ==
    CASE operation = "get" -> IndexGetExceptionType
      [] operation = "getAll" -> IndexGetAllExceptionType \cup {"TypeError"}
      [] operation = "getKey" -> IndexGetKeyExceptionType
      [] operation = "getAllKeys" -> IndexGetAllKeysExceptionType \cup {"TypeError"}
      [] operation = "count" -> IndexCountExceptionType

\* C17: a request of an index operation (get, getAll, getKey, getAllKeys, count)
\* that the engine fails, at issuance or on the request, fails with an
\* IDBObjectStoreIndexOperationError of that operation and that cause exactly when
\* the exception is one the index operation recognizes, and is a defect otherwise.
C17_IndexFailureClassification ==
    (proxyCall.service = "index" /\ Signalled # "success") =>
        LET out == proxyCall.outcome
            typed == /\ out.exit = "failure"
                     /\ out.tag = "IDBObjectStoreIndexOperationError"
                     /\ out.operation = proxyCall.operation
                     /\ out.cause = Signalled
        IN  /\ typed <=> Signalled \in RecognizedIndexErrors(proxyCall.operation)
            /\ out.exit = "defect" <=> Signalled \notin RecognizedIndexErrors(proxyCall.operation)

\* getAllKeys called with a key the engine rejects: DataError is not in the list
\* of getAllKeys, the call is a defect
C17_Witness ==
    /\ proxyCall.service = "index"
    /\ proxyCall.operation = "getAllKeys"
    /\ proxyCall.thrown = "DataError"
    /\ proxyCall.outcome.exit = "defect"
    /\ proxyCall.outcome.cause = "DataError"

\* the mode of the transaction a proxy operation of registry r works in: that of
\* the live transaction, or the mode the registry would open one with
ScopeMode(r) ==
    IF registry[r].liveTransaction = 0 THEN registry[r].permissionRef
    ELSE transactions[registry[r].liveTransaction].mode

\* C18: a proxy operation on a store that is not in the connected database, or not
\* among the stores of the scope's native transaction, fails with an
\* IDBTransactionError whose storeNames holds that store and whose mode is the mode
\* of the scope's transaction; it is not a defect, issues no request, and touches no
\* transaction.
C18_MissingStoreIsTransactionError ==
    [][\A r \in Registries :
          LET c == registry'[r].lastCall
          IN  (callCount' = callCount + 1 /\ c.call = callCount' /\ c.missing # "none") =>
                  /\ c.tag = "IDBTransactionError"
                  /\ c.store \in Range(c.storeNames)
                  /\ c.mode = ScopeMode(r)
                  /\ transactions' = transactions
                  /\ confirmedWrites' = confirmedWrites]_vars

\* an operation on store "notes", which the database has, failed in a scope whose
\* transaction was opened before the proxy of "notes" was built
C18_Witness ==
    \E r \in Registries :
        /\ registry[r].lastCall.missing = "transaction"
        /\ registry[r].lastCall.store = "notes"
        /\ registry[r].lastCall.tag = "IDBTransactionError"
        /\ registry[r].lastCall.storeNames = <<"notes">>
        /\ registry[r].liveTransaction # 0

\* ------------------------------------------------------------------------
\* Properties of the connection lifecycle
\* ------------------------------------------------------------------------
\* C19: a connection that the open has handed to its scope is open and has had no
\* close() call while the scope runs, and is closed with exactly one close() call
\* once the scope has ended, whether its body succeeded, failed or was interrupted.
C19_ClosedOnceAtScopeEnd ==
    \A s \in Scopes :
        dbScopes[s].acquired =>
            /\ dbScopes[s].state \in {"running", "ended"}
            /\ dbScopes[s].state = "running" =>
                   (connections[s].open /\ connections[s].closeCalls = 0)
            /\ dbScopes[s].state = "ended" =>
                   (~connections[s].open /\ connections[s].closeCalls = 1)

\* one scope has ended by interruption and one by failure of its body, both after
\* their connection was acquired, and both connections are closed
C19_Witness ==
    \E s, t \in Scopes :
        /\ dbScopes[s].acquired /\ dbScopes[s].state = "ended"
        /\ dbScopes[s].exit = "interrupt" /\ connections[s].closeCalls = 1
        /\ dbScopes[t].acquired /\ dbScopes[t].state = "ended"
        /\ dbScopes[t].exit = "failure" /\ connections[t].closeCalls = 1

\* C20: a connection at which the engine has fired "versionchange" - an open at a
\* higher version or a deletion of its database was requested elsewhere - is closed
\* then, not only when the scope that holds it ends.
C20_ReleasedOnVersionChange ==
    \A s \in Scopes :
        (connections[s].versionchange /\ dbScopes[s].state = "running") =>
            ~connections[s].open

\* C21: the opens of one database name made in different scopes return handles of
\* their own: a close() call reaches a connection only in the step that ends the
\* scope holding it, and that step leaves every other connection as it was, open
\* ones open.
C21_IndependentHandles ==
    [][\A s \in Scopes :
          connections'[s].closeCalls # connections[s].closeCalls =>
              /\ dbScopes[s].state = "running" /\ dbScopes'[s].state = "ended"
              /\ \A t \in Scopes \ {s} :
                     /\ connections'[t] = connections[t]
                     /\ dbScopes'[t] = dbScopes[t]]_vars

\* two scopes opened the database at the same version; one has ended and its
\* connection is closed, the other runs on with its connection open
C21_Witness ==
    \E s, t \in Scopes :
        /\ s # t
        /\ dbScopes[s].requested = dbScopes[t].requested
        /\ dbScopes[s].acquired /\ dbScopes[s].state = "ended"
        /\ connections[s].closeCalls = 1 /\ ~connections[s].open
        /\ dbScopes[t].acquired /\ dbScopes[t].state = "running"
        /\ connections[t].open /\ connections[t].closeCalls = 0

\* ------------------------------------------------------------------------
\* Properties of the registry state
\* ------------------------------------------------------------------------
\* C22: the permission a scope's registry was built with stays its permission, and
\* every native transaction the registry opens has that mode, whatever calls the
\* body makes.
C22_FixedPermission ==
    \A i \in 1..Len(builtLayers) :
        LET l == builtLayers[i]
        IN  /\ registry[l.registry].permissionRef = l.mode
            /\ \A t \in OpenedBy(l.registry) : transactions[t].mode = l.mode

\* the registries whose scope has its body running
RunningRegistries ==
    {r \in Registries : registry[r].built /\ bodyState[registry[r].provide] = "running"}

\* C23: read-only scopes that run at the same time each read in a readonly native
\* transaction their own registry opened, no transaction serves two scopes, a read
\* of one scope leaves the registry of every other scope as it was, and a scope
\* can always make its read, whatever the other scopes are doing.
C23_ConcurrentReaders ==
    /\ [](\A r \in Registries :
             /\ opTransactions[r] \subseteq OpenedBy(r)
             /\ \A t \in opTransactions[r] : transactions[t].mode = "readonly"
             /\ \A q \in Registries \ {r} : opTransactions[r] \cap opTransactions[q] = {}
             /\ \A n \in registry[r].proxies :
                    (r \in RunningRegistries
                     /\ (registry[r].liveTransaction # 0 \/ Len(transactions) < MaxTransactions))
                        => ENABLED StoreOperation(r, n, "get", "success"))
    /\ [][\A r \in Registries :
             (callCount' = callCount + 1 /\ registry'[r].lastCall.call = callCount') =>
                 \A q \in Registries \ {r} :
                     registry'[q] = registry[q] /\ opTransactions'[q] = opTransactions[q]]_vars

\* two scopes over store "contacts" are running, each has read in a transaction of
\* its own, and neither transaction has finished
C23_Witness ==
    \E r, q \in RunningRegistries :
        /\ r # q
        /\ registry[r].proxies = {"contacts"} /\ registry[q].proxies = {"contacts"}
        /\ registry[r].liveTransaction # 0 /\ registry[q].liveTransaction # 0
        /\ registry[r].liveTransaction # registry[q].liveTransaction
        /\ registry[r].lastError = "none" /\ registry[q].lastError = "none"
        /\ transactions[registry[r].liveTransaction].state = "active"
        /\ transactions[registry[q].liveTransaction].state = "active"

\* what the engine documents db.deleteObjectStore to throw
DeleteObjectStoreExceptions == {"InvalidStateError", "TransactionInactiveError", "NotFoundError"}

\* the exceptions each schema change recognizes
RecognizedSchemaErrors(operation) ==
    CASE operation = "createObjectStore" -> CreateObjectStoreExceptionType
      [] operation = "createIndex" -> CreateObjectStoreIndexExceptionType
      [] operation = "deleteObjectStore" -> DeleteObjectStoreExceptions

\* C24: createObjectStore, the creation of an index and deleteObjectStore fail with
\* the typed creation or deletion error when the engine's exception is one the
\* operation recognizes, and end as a defect for every other exception.
C24_SchemaChangeClassification ==
    proxyCall.service = "upgrade" =>
        LET out == proxyCall.outcome
            recognized == proxyCall.thrown \in RecognizedSchemaErrors(proxyCall.operation)
        IN  /\ recognized =>
                   /\ out.exit = "failure"
                   /\ out.tag = IF proxyCall.operation = "deleteObjectStore"
                                THEN "IDBDatabaseObjectStoreDeletionError"
                                ELSE "IDBDatabaseObjectStoreCreationError"
                   /\ out.cause = proxyCall.thrown
            /\ ~recognized => out.exit = "defect"

\* ------------------------------------------------------------------------
\* Properties of the migration unit
\* ------------------------------------------------------------------------
\* C25: within one open a migration step is started either by the upgradeneeded
\* handler, as the first step, or when the one step in progress has completed
\* without failure, as the next step of the plan; no step is started in the step
\* that reports a failure or after the fiber has ended.
C25_SequentialMigration ==
    [][(openCount' = openCount /\ migrationLog' # migrationLog) =>
          /\ ~failedUpgrade'.happened
          /\ \/ /\ upgradeFiber.state = "undefined"
                /\ migrationLog = <<>>
                /\ migrationLog' = <<orderedMigrations'[1]>>
                /\ upgradeFiber'.current = 1
             \/ /\ upgradeFiber.state = "running" /\ upgradeFiber'.state = "running"
                /\ Len(migrationLog) = upgradeFiber.current
                /\ upgradeFiber'.current = upgradeFiber.current + 1
                /\ migrationLog' =
                       Append(migrationLog, orderedMigrations[upgradeFiber.current + 1])]_vars

\* the second of three steps has failed after the first had completed, and the
\* third was never started
C25_Witness ==
    /\ Len(orderedMigrations) = 3
    /\ Len(migrationLog) = 2
    /\ upgradeFiber.state = "done"
    /\ upgradeFiber.exit = "failure"
    /\ failedUpgrade.happened

\* ------------------------------------------------------------------------
\* Properties of store operations run in several fibers of one scope
\* ------------------------------------------------------------------------
\* both fibers have read the live-transaction memo of registry r as null and
\* have each resolved their store
BothReadNull(f, g) ==
    /\ f # g
    /\ storeFibers[f].at = "done" /\ storeFibers[g].at = "done"
    /\ storeFibers[f].registry = storeFibers[g].registry
    /\ storeFibers[f].seen = 0 /\ storeFibers[g].seen = 0
    /\ storeFibers[f].resolved = "ok" /\ storeFibers[g].resolved = "ok"

\* C26: when two store operations of one scope both pass the check of the
\* live-transaction memo before a native transaction exists, at most one native
\* transaction is opened for the scope and both operations use it.
C26_OneTransactionUnderRace ==
    \A f \in Fibers, g \in Fibers :
        BothReadNull(f, g) =>
            /\ storeFibers[f].nativeTx = storeFibers[g].nativeTx
            /\ Cardinality(OpenedBy(storeFibers[f].registry)) <= 1

\* ------------------------------------------------------------------------
\* Properties of store registration
\* ------------------------------------------------------------------------
\* C27: an addStore(name) made while the scope's native transaction is live changes
\* nothing: the accumulated store-name set and the live-transaction memo keep their
\* values and no transaction is opened.
C27_LateAddStoreIsNoOp ==
    [][\A r \in Registries :
          (registry[r].liveTransaction # 0 /\ addStoreLog'[r] # addStoreLog[r]) =>
              /\ registry'[r].storeNamesRef = registry[r].storeNamesRef
              /\ registry'[r].liveTransaction = registry[r].liveTransaction
              /\ transactions' = transactions]_vars

\* C28: once the scope's native transaction exists, a proxy operation opens no
\* further transaction and leaves the memo alone; on a store that was registered
\* too late to be in the transaction's scope it fails with an IDBTransactionError
\* that names that store and touches no transaction, while an operation on a store
\* of the transaction's scope still resolves against that transaction as long as it
\* is active.
C28_LateStoreIsSurfaced ==
    [][\A r \in Registries :
          LET c == registry'[r].lastCall
              t == registry[r].liveTransaction
          IN  (callCount' = callCount + 1 /\ c.call = callCount' /\ t # 0) =>
                  /\ Len(transactions') = Len(transactions)
                  /\ registry'[r].liveTransaction = t
                  /\ c.store \notin Range(transactions[t].storeNames) =>
                        /\ c.tag = "IDBTransactionError"
                        /\ c.storeNames = <<c.store>>
                        /\ transactions' = transactions
                  /\ (c.store \in Range(transactions[t].storeNames)
                          /\ transactions[t].state = "active") =>
                        /\ c.tag = "ok"
                        /\ t \in opTransactions'[r]]_vars

\* a write on "contacts" went into the scope's transaction, then the proxy of "notes"
\* was built and an operation on it failed, the transaction still the only one
C28_Witness ==
    \E r \in Registries :
        /\ registry[r].liveTransaction = 1
        /\ Len(transactions) = 1
        /\ transactions[1].storeNames = <<"contacts">>
        /\ transactions[1].state = "active"
        /\ transactions[1].writes # {}
        /\ "notes" \in registry[r].proxies
        /\ registry[r].lastCall.store = "notes"
        /\ registry[r].lastCall.tag = "IDBTransactionError"
        /\ registry[r].lastCall.storeNames = <<"notes">>

\* C29: however often addStore is called with a name, the accumulated set is the
\* one a single call per name gives - each registered name once, in order of first
\* registration - and a native transaction opened from it lists no name twice.
C29_AddStoreIdempotent ==
    \A r \in Registries :
        /\ registry[r].storeNamesRef = FirstOccurrences(addStoreLog[r])
        /\ \A t \in OpenedBy(r) :
              \A i \in 1..Len(transactions[t].storeNames), j \in 1..Len(transactions[t].storeNames) :
                  transactions[t].storeNames[i] = transactions[t].storeNames[j] => i = j

\* "contacts" was registered twice before the first access, and the transaction
\* then opened lists it once
C29_Witness ==
    \E t \in TransactionIds :
        LET log == addStoreLog[transactions[t].registry]
        IN  /\ transactions[t].addCallsAtOpen >= 2
            /\ log[1] = "contacts" /\ log[2] = "contacts"
            /\ transactions[t].storeNames = <<"contacts">>
            /\ registry[transactions[t].registry].storeNamesRef = <<"contacts">>

\* ------------------------------------------------------------------------
\* Properties of opening the native transaction
\* ------------------------------------------------------------------------
RecognizedOpenErrors == {"InvalidStateError", "NotFoundError", "InvalidAccessError", "TypeError"}

\* C30: when db.transaction throws, makeTransaction fails with an
\* IDBTransactionError carrying the store names and the mode it asked for exactly
\* when the exception is an InvalidStateError, NotFoundError, InvalidAccessError
\* (which an empty store list gives) or TypeError, and with a defect otherwise; in
\* both cases no transaction is created or memoized, no history entry is pushed, and
\* the accumulated names and the permission stay as they were.
C30_OpenFailureClassification ==
    [][\A r \in Registries :
          LET c == registry'[r].lastCall
              thrown == registry'[r].lastThrown
          IN  (callCount' = callCount + 1 /\ c.call = callCount' /\ c.store = "none"
                   /\ thrown # "ok") =>
                  /\ c.tag = IF thrown \in RecognizedOpenErrors
                             THEN "IDBTransactionError" ELSE "defect"
                  /\ c.tag = "IDBTransactionError" =>
                        /\ c.storeNames = registry[r].storeNamesRef
                        /\ c.mode = registry[r].permissionRef
                  /\ transactions' = transactions
                  /\ transactionHistory' = transactionHistory
                  /\ registry'[r].liveTransaction = registry[r].liveTransaction
                  /\ registry'[r].storeNamesRef = registry[r].storeNamesRef
                  /\ registry'[r].permissionRef = registry[r].permissionRef]_vars
      /\ [](\A r \in Registries :
               (registry[r].storeNamesRef = <<>> /\ registry[r].lastCall.store = "none"
                    /\ registry[r].lastCall.call # 0) =>
                   /\ registry[r].lastThrown # "ok"
                   /\ registry[r].lastThrown = "InvalidAccessError" =>
                         registry[r].lastCall.tag = "IDBTransactionError")

\* a TypeError thrown by db.transaction came back as a typed error with the names
\* and the mode of the request, and nothing was memoized or recorded
C30_Witness ==
    \E r \in Registries :
        /\ registry[r].lastThrown = "TypeError"
        /\ registry[r].lastCall.tag = "IDBTransactionError"
        /\ registry[r].lastCall.storeNames = <<"contacts", "notes">>
        /\ registry[r].lastCall.mode = "readwrite"
        /\ registry[r].liveTransaction = 0
        /\ transactionHistory = <<>>

\* the open of a transaction over no store at all was refused by the engine
C30_EmptyListWitness ==
    \E r \in Registries :
        /\ registry[r].storeNamesRef = <<>>
        /\ registry[r].lastThrown = "InvalidAccessError"
        /\ registry[r].lastCall.tag = "IDBTransactionError"
        /\ registry[r].lastCall.storeNames = <<>>

\* ------------------------------------------------------------------------
\* Properties of the classification of open failures
\* ------------------------------------------------------------------------
RecognizedOpenRequestErrors ==
    {"AbortError", "ConstraintError", "NotReadableError", "QuotaExceededError", "UnknownError",
     "VersionError"}

\* C31: an exception thrown by indexedDB.open fails the open with an
\* IDBDatabaseOpenError exactly when it is a TypeError and is a defect otherwise; an
\* error event on the open request fails it with an IDBDatabaseOpenError exactly
\* when request.error is an AbortError, ConstraintError, NotReadableError,
\* QuotaExceededError, UnknownError or VersionError, and is a defect otherwise.
C31_OpenFailureKinds ==
    proxyCall.service = "factory" =>
        /\ proxyCall.thrown # "none" =>
              /\ proxyCall.outcome.exit = IF proxyCall.thrown = "TypeError"
                                          THEN "failure" ELSE "defect"
              /\ proxyCall.outcome.tag = IF proxyCall.thrown = "TypeError"
                                         THEN "IDBDatabaseOpenError" ELSE "defect"
        /\ proxyCall.event \notin {"none", "success"} =>
              /\ proxyCall.outcome.exit = IF proxyCall.event \in RecognizedOpenRequestErrors
                                          THEN "failure" ELSE "defect"
              /\ proxyCall.outcome.tag = IF proxyCall.event \in RecognizedOpenRequestErrors
                                         THEN "IDBDatabaseOpenError" ELSE "defect"

\* indexedDB.open threw something that is not a TypeError, and the open died
C31_Witness ==
    /\ proxyCall.service = "factory"
    /\ proxyCall.thrown = "InvalidStateError"
    /\ proxyCall.outcome.exit = "defect"
    /\ proxyCall.outcome.cause = "InvalidStateError"

\* ------------------------------------------------------------------------
\* Properties of createObjectStore with indexes
\* ------------------------------------------------------------------------
\* the createIndex calls for the first n of the indexes, in their order
RECURSIVE CreateIndexCalls(_, _, _)
CreateIndexCalls(storeName, indexes, n) ==
    IF n = 0 THEN <<>>
    ELSE Append(CreateIndexCalls(storeName, indexes, n - 1),
                NativeCall("createIndex", storeName, indexes[n].name))

\* C32: a run that finds no store "contacts" creates the store and then its declared
\* indexes one by one in the declared order.  When the creation of index i fails
\* the run fails with an IDBDatabaseObjectStoreCreationError whose storeName is
\* "contacts", the calls made are the creation of the store and of the indexes
\* before i and nothing else - no deletion -, and the store and those indexes are
\* still there.
C32_CreateStoreThenIndexes ==
    (schemaRun.count > 0 /\ "contacts" \notin schemaRun.before.stores) =>
        LET indexes == schemaRun.declared[1].indexes
            create == <<NativeCall("createObjectStore", "contacts", "none")>>
        IN  IF schemaRun.ok
            THEN SubSeq(schemaDb.calls, 1, 1 + Len(indexes))
                     = create \o CreateIndexCalls("contacts", indexes, Len(indexes))
            ELSE /\ schemaRun.error.tag = "IDBDatabaseObjectStoreCreationError"
                 /\ schemaRun.error.storeName = "contacts"
                 /\ \E i \in 1..Len(indexes) :
                       /\ schemaDb.calls = create \o CreateIndexCalls("contacts", indexes, i - 1)
                       /\ IndexNamesOf(schemaDb, "contacts")
                              = {indexes[k].name : k \in 1..(i - 1)}
                 /\ "contacts" \in schemaDb.stores

\* the second of two declared indexes was refused by the engine: the store and the
\* first index stay created
C32_Witness ==
    /\ schemaRun.count > 0
    /\ ~schemaRun.ok
    /\ schemaRun.before.stores = {}
    /\ Len(schemaRun.declared[1].indexes) = 2
    /\ schemaRun.error.cause = "InvalidAccessError"
    /\ schemaDb.calls = <<NativeCall("createObjectStore", "contacts", "none"),
                          NativeCall("createIndex", "contacts", "email")>>
    /\ "contacts" \in schemaDb.stores

\* ------------------------------------------------------------------------
\* Properties of the invalid-count TypeError
\* ------------------------------------------------------------------------
\* C33: a TypeError thrown by the native call of a proxy operation fails the effect
\* with the typed error of the proxy for getAll of the store proxy and for getAll
\* and getAllKeys of the index proxy; thrown by get, add, put, delete, clear, getKey
\* or count it is a defect.
C33_TypeErrorOnlyForLists ==
    (proxyCall.thrown = "TypeError" /\ proxyCall.service \in {"store", "index"}
         /\ proxyCall.operation # "index") =>
        LET list == \/ proxyCall.service = "store" /\ proxyCall.operation = "getAll"
                    \/ proxyCall.service = "index"
                         /\ proxyCall.operation \in {"getAll", "getAllKeys"}
        IN  IF list
            THEN /\ proxyCall.outcome.exit = "failure"
                 /\ proxyCall.outcome.operation = proxyCall.operation
                 /\ proxyCall.outcome.cause = "TypeError"
                 /\ proxyCall.outcome.tag = IF proxyCall.service = "store"
                                            THEN "IDBObjectStoreOperationError"
                                            ELSE "IDBObjectStoreIndexOperationError"
            ELSE /\ proxyCall.outcome.exit = "defect"
                 /\ proxyCall.outcome.cause = "TypeError"

\* store.get threw a TypeError and the effect died, where store.getAll would have
\* failed with the typed error
C33_Witness ==
    /\ proxyCall.service = "store"
    /\ proxyCall.operation = "get"
    /\ proxyCall.thrown = "TypeError"
    /\ proxyCall.outcome.exit = "defect"
    /\ useRawStoreRequest("getAll", proxyCall.thrown, "none").exit = "failure"

\* ------------------------------------------------------------------------
\* Properties of an interrupted upgrade
\* ------------------------------------------------------------------------
\* C34: once the migration fiber has ended with an interruption, open has failed
\* with the IDBDatabaseOpenError of the upgrade whose cause is that interruption.
C34_InterruptionFailsOpen ==
    (upgradeFiber.state = "done" /\ upgradeFiber.cause.tag = "Interrupt") =>
        OpenResult = [tag |-> "IDBDatabaseOpenError", message |-> "upgrade",
                      cause |-> upgradeFiber.cause]

\* ------------------------------------------------------------------------
\* Properties of a scope whose transaction has finished
\* ------------------------------------------------------------------------
\* C35: a proxy operation made when the scope's memoized transaction has committed
\* or aborted opens no transaction and pushes no history entry, leaves the memo on
\* the finished transaction, and fails with a typed error - an IDBTransactionError
\* or an IDBObjectStoreOperationError -, confirming no write.
C35_NoReplacementTransaction ==
    [][\A r \in Registries :
          LET c == registry'[r].lastCall
              t == registry[r].liveTransaction
          IN  (callCount' = callCount + 1 /\ c.call = callCount' /\ c.store # "none"
                   /\ t # 0 /\ Finished(t)) =>
                  /\ transactions' = transactions
                  /\ transactionHistory' = transactionHistory
                  /\ registry'[r].liveTransaction = t
                  /\ registry'[r].lastError
                         \in {"IDBTransactionError", "IDBObjectStoreOperationError"}
                  /\ confirmedWrites' = confirmedWrites]_vars

\* the transaction over "contacts" has committed, and a later operation on
\* "contacts" failed with an IDBTransactionError; the history still has one entry
C35_Witness ==
    \E r \in Registries :
        /\ registry[r].liveTransaction = 1
        /\ transactions[1].state = "committed"
        /\ transactions[1].storeNames = <<"contacts">>
        /\ registry[r].lastCall.store = "contacts"
        /\ registry[r].lastCall.call > 1
        /\ registry[r].lastCall.tag = "IDBTransactionError"
        /\ Len(transactionHistory) = 1

\* ------------------------------------------------------------------------
\* Properties of the handles of failed opens
\* ------------------------------------------------------------------------
\* C36: no connection that the engine opened stays open past the end of the scope
\* whose open produced it; in particular, after an open that failed because a
\* migration step failed while the open request itself succeeded, the connection of
\* that request is closed.
C36_NoHandleLeak ==
    \A s \in Scopes :
        (dbScopes[s].state = "ended" /\ connections[s].opened) =>
            ~connections[s].open

\* ------------------------------------------------------------------------
\* Properties of the frame of autoGenerateObjectStores
\* ------------------------------------------------------------------------
DeclaredStoreNames(stores) == {stores[i].name : i \in 1..Len(stores)}

\* C37: a run of autoGenerateObjectStores removes no store, creates only declared
\* stores, makes no structural call on a store that is not declared and leaves the
\* indexes of such a store as they were, and leaves the key path, the auto-increment
\* setting and the records of every store that existed before the run as they were.
C37_ReconcileFrame ==
    [][schemaRun'.count # schemaRun.count =>
          LET declared == DeclaredStoreNames(schemaRun'.declared)
          IN  /\ schemaDb.stores \subseteq schemaDb'.stores
              /\ schemaDb'.stores \ schemaDb.stores \subseteq declared
              /\ \A i \in 1..Len(schemaDb'.calls) :
                     /\ schemaDb'.calls[i].op \in {"createObjectStore", "createIndex", "deleteIndex"}
                     /\ schemaDb'.calls[i].store \in declared
              /\ {x \in schemaDb'.indexes : x.store \notin declared}
                     = {x \in schemaDb.indexes : x.store \notin declared}
              /\ \A name \in schemaDb.stores : schemaStores'[name] = schemaStores[name]]_vars

\* the latest run declared store "notes" only, with parameters other than those the
\* store was created with, and gave it an index; store "contacts", which it does not
\* declare, has indexes; both stores hold records
C37_Witness ==
    /\ schemaRun.count > 1
    /\ schemaRun.ok
    /\ DeclaredStoreNames(schemaRun.declared) = {"notes"}
    /\ "notes" \in schemaRun.before.stores
    /\ \E i \in 1..Len(schemaDb.calls) : schemaDb.calls[i].op = "createIndex"
    /\ schemaStores["notes"].params # schemaRun.params
    /\ schemaStores["notes"].records # {}
    /\ schemaStores["contacts"].records # {}
    /\ \E x \in schemaDb.indexes : x.store = "contacts"

\* ------------------------------------------------------------------------
\* Properties of the outcome of a request
\* ------------------------------------------------------------------------
\* C38: the effect of a store or index request to which the engine has delivered an
\* event has exactly one outcome, the first value its handlers gave to resume: after
\* a failure the operation recognizes it has failed with the typed error of that
\* cause, the defect signalled right after it changing nothing, and an event
\* delivered after the first one, success after error or error after success,
\* changes nothing either.
C38_FirstOutcomeWins ==
    requestLog.events # <<>> =>
        LET out == proxyCall.outcome
            first == requestLog.events[1]
            recognized ==
                IF proxyCall.service = "store"
                THEN first \in RecognizedStoreErrors(proxyCall.operation)
                ELSE first \in RecognizedIndexErrors(proxyCall.operation)
        IN  /\ out.exit \in {"success", "failure", "defect"}
            /\ out = requestLog.resumes[1]
            /\ first = "success" <=> out.exit = "success"
            /\ (first # "success" /\ recognized) =>
                   /\ out.exit = "failure"
                   /\ out.cause = first
                   /\ requestLog.resumes[2].exit = "defect"
            /\ (first # "success" /\ ~recognized) => out.exit = "defect"

\* a put whose request reported QuotaExceededError and then success: the handlers
\* signalled the typed failure, a defect and a success, and the effect has failed
\* with the typed error
C38_Witness ==
    /\ proxyCall.service = "store"
    /\ proxyCall.operation = "put"
    /\ requestLog.events = <<"QuotaExceededError", "success">>
    /\ Len(requestLog.resumes) = 3
    /\ requestLog.resumes[2].exit = "defect"
    /\ requestLog.resumes[3].exit = "success"
    /\ proxyCall.outcome.exit = "failure"
    /\ proxyCall.outcome.tag = "IDBObjectStoreOperationError"

\* ------------------------------------------------------------------------
\* Termination of open
\* ------------------------------------------------------------------------
\* C39: when the engine goes on delivering the events of the open request and every
\* migration step terminates, an open that was issued eventually resolves with a
\* handle, fails with IDBDatabaseOpenError or dies with a defect, with or without an
\* upgrade and in every order of the events; it does not stay suspended.
C39_OpenTerminates ==
    (request.readyState = "pending") ~>
        (OpenResult.tag \in {"handle", "IDBDatabaseOpenError", "defect"})

\* the success event of an open came while a step of its upgrade was still waiting;
\* the step has ended since and the open has resolved with the handle
C39_Witness ==
    /\ request.readyState = "done"
    /\ upgradeFiber.pendingSuccess
    /\ upgradeFiber.state = "done"
    /\ resumed.kind = "awaitFiber"
    /\ OpenResult.tag = "handle"

====
